---- MODULE Spec2Model ----
(***************************************************************************)
(* Verification model of the ratetrade trading pipeline.                   *)
(*                                                                         *)
(*   Spec      - the Order Execution & Monitor component                   *)
(*               (src/src/services/ExecutionService.ts), driven at its     *)
(*               handler interface (HTTP routes, queue consumer, timer).   *)
(*   SpecBus   - the messages the components publish to the bus            *)
(*               (src/src/utils/messageQueue.ts), their routing and their  *)
(*               dispatch by the consumers' command handlers.              *)
(*   SpecSched - the periodic timers of the three components and the       *)
(*               cycles they start.                                        *)
(*   SpecSignal - the Signal Aggregator (src/unnamed/part_000): strategy   *)
(*               configuration, the analysis cycle of an instrument and    *)
(*               the aggregation of its signals.                           *)
(*   SpecRisk  - the Risk Assessor's snapshot, limits and admission check  *)
(*               (src/src/services/RiskEngineService.ts).                  *)
(*   SpecSizing - the Risk Assessor's position sizing proposal.            *)
(*   SpecPortfolio - simulated orders of the execution component on two    *)
(*               instruments, its monitoring cycles and close-all.         *)
(*   SpecAggregate - the aggregation of signals of middling confidence.    *)
(*   SpecReplay - simulated orders of two sizes on one instrument and the  *)
(*               position the replay of their fills gives.                 *)
(*   SpecWindow - the market data window of an instrument under            *)
(*               MARKET_DATA_UPDATE messages and analysis cycles.          *)
(*   SpecMonitor - order monitoring under fair cycles (liveness).          *)
(*   SpecGate  - trading signals handled while the Risk monitor renews     *)
(*               its snapshot.                                             *)
(*                                                                         *)
(* Numbers: the TypeScript code uses IEEE doubles.  Money is modelled in   *)
(* fixed point, one unit = 1/Scale dollar; quantities and reference prices *)
(* are whole numbers.  Time passes in ticks of TickMs milliseconds; the    *)
(* code reads lastAttempt only as Date.now() - lastAttempt, so an          *)
(* OrderExecution keeps that difference (sinceLastAttempt, in ticks).      *)
(* The aggregator's confidences are exact rationals with Infinity and NaN; *)
(* the sizes, prices and percentages of validatePosition are binary64      *)
(* values rounded to nearest.                                              *)
(***************************************************************************)
EXTENDS Integers, Sequences, FiniteSets, TLC

(***************************************************************************)
(* Bounds of the model                                                     *)
(***************************************************************************)
MaxOrders == 1
TickMs == 30001

(***************************************************************************)
(* Program constants                                                       *)
(***************************************************************************)
InitialSimulatedBalance == 100000
MaxOrderRetries == 3
OrderTimeout == 30000
BaseSlippageMicroPct == 50000
VolumeImpactRef == 10000
FeeNumerator == 4
FeeDenominator == 10000

Scale == 100 * 100
Symbols == {"BTCUSDT"}
Sides == {"BUY", "SELL"}
Quantities == {1}
NoData == 0
Prices == {100}
OrderStatuses == {"NEW", "PARTIALLY_FILLED", "FILLED", "CANCELED", "REJECTED", "EXPIRED"}
TerminalStatuses == {"FILLED", "CANCELED", "REJECTED", "EXPIRED"}

VARIABLES
    simulationMode,     \* ExecutionService.config.simulationMode
    pendingOrders,      \* ExecutionService.pendingOrders : id -> OrderExecution
    orderHistory,       \* ExecutionService.orderHistory, in insertion order; id = index
    isExecuting,        \* ExecutionService.isExecuting
    executionInterval,  \* ExecutionService.executionInterval is scheduled
    emergencyStopped,   \* emergencyStop has completed, with no START_TRADING since
    simulatedBalance,   \* ExecutionService.simulatedBalance (fixed point)
    exStatus,           \* the exchange's own status of each live order
    lostFills,          \* simulated fills whose redis.set threw
    simExecutions,      \* redis sim_execution:<id>, in the order they were set
    lastOp,             \* the handler that ran last and what it observed
    queues,             \* the bus: queue name -> messages waiting, oldest first
    sent,               \* every message published so far; id = index
    publishes,          \* publishing operations so far
    unroutable,         \* ids of the messages no binding matched
    dispatched,         \* what the consumers' handleCommand did with a message
    requests,           \* MessageQueue.request calls; correlation id = index
    replies,            \* messages on the reply queues
    riskHasSnapshot,    \* RiskEngineService.currentRiskMetrics is set
    isMonitoring,       \* RiskEngineService.isMonitoring
    monitoringInterval, \* RiskEngineService.monitoringInterval is scheduled
    isAnalyzing,        \* StrategyEngineService.isAnalyzing
    analysisInterval,   \* StrategyEngineService.analysisInterval is scheduled
    running,            \* component -> periodic cycles started and not yet done
    lastCommand,        \* component -> the last start, stop or pause command handled
    strategyConfigs,    \* StrategyEngineService.strategyConfigs : id -> config
    currentSignals,     \* StrategyEngineService.currentSignals : symbol -> decision
    marketDataCache,    \* StrategyEngineService.marketDataCache : symbol -> window
    arrivals,           \* symbol -> MARKET_DATA_UPDATE messages handled so far
    analysis,           \* the generateSignalsForSymbol call that has just returned
    currentRiskMetrics, \* RiskEngineService.currentRiskMetrics
    riskLimits,         \* RiskEngineService.riskLimits
    lastAssessment,     \* the last validatePosition call: its input and result
    lastProposal,       \* the last calculate-size call: its input and outcome
    defaultLeverage     \* Config.DEFAULT_LEVERAGE

execVars == <<simulationMode, pendingOrders, orderHistory, isExecuting,
              executionInterval, simulatedBalance, exStatus,
              lostFills, simExecutions, emergencyStopped, lastOp>>

busVars == <<queues, sent, publishes, unroutable, dispatched, requests, replies,
             riskHasSnapshot>>

schedVars == <<isMonitoring, monitoringInterval, isAnalyzing, analysisInterval,
               running, lastCommand>>

signalVars == <<strategyConfigs, currentSignals, marketDataCache, arrivals, analysis>>

riskVars == <<currentRiskMetrics, riskLimits, lastAssessment, lastProposal,
             defaultLeverage>>

vars == <<execVars, busVars, schedVars, signalVars, riskVars>>

(***************************************************************************)
(* Numeric helpers                                                         *)
(***************************************************************************)
Max(a, b) == IF a >= b THEN a ELSE b
Min(a, b) == IF a <= b THEN a ELSE b

RECURSIVE Log2Floor(_)
Log2Floor(n) == IF n < 2 THEN 0 ELSE 1 + Log2Floor(n \div 2)

RECURSIVE Pow2(_)
Pow2(k) == IF k = 0 THEN 1 ELSE 2 * Pow2(k - 1)

\* Math.log(n) for an integer n >= 1, in units of 1/10000:
\* n = m * 2^k with 1 <= m < 2, ln n = k ln 2 + 2 atanh((m-1)/(m+1)).
LnE4(n) ==
    LET k  == Log2Floor(n)
        p  == Pow2(k)
        z  == ((n - p) * 10000) \div (n + p)
        zz == (z * z) \div 10000
        t3 == (z * zz) \div 10000
        t5 == (t3 * zz) \div 10000
        t7 == (t5 * zz) \div 10000
        t9 == (t7 * zz) \div 10000
    IN  (k * 693147) \div 100
        + 2 * (z + t3 \div 3 + t5 \div 5 + t7 \div 7 + t9 \div 9)

(***************************************************************************)
(* ExecutionService: simulated fills                                       *)
(***************************************************************************)
\* Slippage in millionths of a percent.  Math.log(0) is -Infinity, so an
\* order of value 0 has slippage max(0, -Infinity) = 0.
calculateSlippage(quantity, price) ==
    LET orderValue == quantity * price
    IN  IF orderValue = 0 THEN 0
        ELSE Max(0, BaseSlippageMicroPct
                      + (LnE4(orderValue) - LnE4(VolumeImpactRef)))

\* Slippage applied in the taker's favour
applySlippageFavourable(price, side, slippageMicroPct) ==
    IF side = "BUY"
    THEN price * Scale - (price * slippageMicroPct) \div 10000
    ELSE price * Scale + (price * slippageMicroPct) \div 10000

\* price in whole dollars, result in fixed point.
applySlippage(price, side, slippageMicroPct) ==
    IF side = "BUY"
    THEN price * Scale + (price * slippageMicroPct) \div 10000
    ELSE price * Scale - (price * slippageMicroPct) \div 10000


(***************************************************************************)
(* The part of the ExecutionService state that the order operations        *)
(* change, as one record, so that a handler is the sequential composition  *)
(* of the methods it awaits.  A method returns [st, threw, ret].           *)
(* st.orderUpdates collects the ORDER_UPDATE messages <<id, status>> the   *)
(* handler publishes, st.listed the symbols of the positions close-all     *)
(* got from getPositions, st.closures the closePosition calls it made, in  *)
(* order, each with the boolean it returned.  A method that reads redis    *)
(* market:<symbol> takes the prices it finds there as md (NoData when the  *)
(* key is absent).                                                         *)
(***************************************************************************)
ExecState ==
    [pendingOrders    |-> pendingOrders,
     orderHistory     |-> orderHistory,
     simulatedBalance |-> simulatedBalance,
     exStatus         |-> exStatus,
     lostFills        |-> lostFills,
     simExecutions    |-> simExecutions,
     orderUpdates     |-> {},
     closures         |-> <<>>,
     listed           |-> <<>>]

Result(st, threw, ret) == [st |-> st, threw |-> threw, ret |-> ret]

\* const x = <value>; <rest using x>
With(x, Rest(_)) == Rest(x)

\* Map.delete on pendingOrders
MapDelete(m, k) == [x \in (DOMAIN m) \ {k} |-> m[x]]

\* Map.set on pendingOrders
MapSet(m, k, v) == [x \in (DOMAIN m) \cup {k} |-> IF x = k THEN v ELSE m[x]]

\* messageQueue.publishOrderUpdate(order): never throws (publish catches)
publishOrderUpdate(st, id) ==
    [st EXCEPT !.orderUpdates = @ \cup {<<id, st.orderHistory[id].status>>}]

\* Faults of the collaborators awaited while an order is created.
\*   redisGet  redis.getMarketData throws          (SIM)
\*   redisSet  redis.set(sim_execution) throws     (SIM)
\*   exchange  binanceAPI.createOrder throws       (LIVE)
\*   dbStore   storeOrder's db.query throws
CreateFaults == {"none", "redisGet", "redisSet", "exchange", "dbStore"}

\* Statuses the exchange gives an order it has just accepted, as mapped by
\* mapOrderStatus (which never yields PARTIALLY_FILLED)
LiveCreateStatuses == {"NEW", "FILLED", "REJECTED"}

\* A simulated order left open: accepted, nothing executed
filledOrderUnfilled(params, executedPrice) ==
    [symbol |-> params.symbol, side |-> params.side,
     quantity |-> params.quantity, price |-> executedPrice,
     status |-> "NEW", executedQty |-> 0,
     averagePrice |-> executedPrice]

\* The order of a simulated fill
filledOrder(params, executedPrice) ==
    [symbol |-> params.symbol, side |-> params.side,
     quantity |-> params.quantity, price |-> executedPrice,
     status |-> "FILLED", executedQty |-> params.quantity,
     averagePrice |-> executedPrice]

\* simulateOrderExecution: returns the FILLED order and the new balance,
\* and stores the SimulatedExecution (slippage in millionths of a percent,
\* price in whole dollars, executedPrice and fee in fixed point).  The fee
\* rate 0.0004 is 1/2500.
simulateOrderExecution(st, params, md, fault) ==
    With(calculateSlippage(params.quantity, md[params.symbol]),
         LAMBDA slippage :
    With(applySlippage(md[params.symbol], params.side, slippage),
         LAMBDA executedPrice :
    With((params.quantity * executedPrice) \div (FeeDenominator \div FeeNumerator),
         LAMBDA fee :
    With(params.quantity * executedPrice + fee,
         LAMBDA cost :
    LET newBalance == IF params.side = "BUY"
                      THEN st.simulatedBalance - cost
                      ELSE st.simulatedBalance + (cost - fee)
        order      == filledOrder(params, executedPrice)
        execution  == [symbol |-> params.symbol, side |-> params.side,
                       quantity |-> params.quantity,
                       price |-> md[params.symbol],
                       executedPrice |-> executedPrice,
                       slippage |-> slippage, fee |-> fee]
    IN  IF fault = "redisGet" THEN Result(st, TRUE, order)
        ELSE IF fault = "redisSet"
        THEN Result([st EXCEPT !.simulatedBalance = newBalance,
                               !.lostFills = @ + 1], TRUE, order)
        ELSE Result([st EXCEPT !.simulatedBalance = newBalance,
                               !.simExecutions = Append(@, execution)],
                    FALSE, order)))))

\* binanceAPI.createOrder: the exchange accepts the order with some status.
\* The exchange's price fields are not read by this service and are left 0.
binanceCreateOrder(st, params, md, fault, status) ==
    LET filled == IF status = "FILLED" THEN params.quantity ELSE 0
        order  == [symbol |-> params.symbol, side |-> params.side,
                   quantity |-> params.quantity, price |-> 0,
                   status |-> status, executedQty |-> filled,
                   averagePrice |-> 0]
    IN  Result(st, fault = "exchange", order)

\* createOrder: ret is the new order id; every failure is rethrown as a
\* TradingError after the effects that preceded it.
createOrder(st, params, md, fault, status) ==
    With(IF simulationMode
         THEN simulateOrderExecution(st, params, md, fault)
         ELSE binanceCreateOrder(st, params, md, fault, status),
         LAMBDA made :
    With(Len(made.st.orderHistory) + 1,
         LAMBDA id :
    With([made.st EXCEPT !.orderHistory = Append(@, made.ret),
                         !.exStatus = Append(@, made.ret.status)],
         LAMBDA s1 :
    IF made.threw THEN Result(made.st, TRUE, 0)
    ELSE IF fault = "dbStore" THEN Result(s1, TRUE, 0)
    ELSE Result(publishOrderUpdate(
                    [s1 EXCEPT !.pendingOrders =
                        MapSet(@, id, [attempts |-> 0, sinceLastAttempt |-> 0])],
                    id),
                FALSE, id))))

(***************************************************************************)
(* ExecutionService: order lookup, cancellation, monitoring                *)
(***************************************************************************)
\* getOrder: the local cache is consulted first and answers for every order
\* this service created; the database and the exchange are reached only for
\* ids the cache does not hold, and hold no order the cache lacks.
getOrder(st, orderId) ==
    IF orderId \in 1..Len(st.orderHistory) THEN orderId ELSE 0

\* cancelOrder without its try/catch: a failed collaborator call is thrown
\* on to the caller.
cancelOrderRethrowing(st, orderId, fails) ==
    LET order == getOrder(st, orderId)
        sim1  == [st EXCEPT !.orderHistory[order].status = "CANCELED"]
        live1 == [st EXCEPT !.exStatus[order] = "CANCELED"]
        done(s) == publishOrderUpdate(
                       [s EXCEPT !.pendingOrders = MapDelete(@, orderId)], order)
    IN  IF order = 0 THEN Result(st, FALSE, FALSE)
        ELSE IF simulationMode
        THEN IF fails THEN Result(sim1, TRUE, FALSE)
                      ELSE Result(done(sim1), FALSE, TRUE)
        ELSE IF fails \/ st.exStatus[order] # "NEW"
             THEN Result(st, TRUE, FALSE)
             ELSE Result(done(live1), FALSE, TRUE)

\* cancelOrder(orderId): fails = the awaited collaborator call throws
\* (updateOrderInDb in SIM, binanceAPI.cancelOrder in LIVE).  The exchange
\* cancels only an order that is still open.  Never throws: ret is the
\* boolean it returns.
cancelOrder(st, orderId, fails) ==
    LET order == getOrder(st, orderId)
        sim1  == [st EXCEPT !.orderHistory[order].status = "CANCELED"]
        live1 == [st EXCEPT !.exStatus[order] = "CANCELED"]
        done(s) == publishOrderUpdate(
                       [s EXCEPT !.pendingOrders = MapDelete(@, orderId)], order)
    IN  IF order = 0 THEN Result(st, FALSE, FALSE)
        ELSE IF simulationMode
        THEN IF fails THEN Result(sim1, FALSE, FALSE)
                      ELSE Result(done(sim1), FALSE, TRUE)
        ELSE IF fails \/ st.exStatus[order] # "NEW"
             THEN Result(st, FALSE, FALSE)
             ELSE Result(done(live1), FALSE, TRUE)

\* Date.now() - execution.lastAttempt.getTime(), in milliseconds
Elapsed(execution) == execution.sinceLastAttempt * TickMs

\* checkOrderStatus with the retry cap tested by <= instead of <
checkOrderStatusOffByOne(st, orderId, fails) ==
    LET execution == st.pendingOrders[orderId]
        order     == getOrder(st, orderId)
        status    == st.orderHistory[order].status
        removed   == [st EXCEPT !.pendingOrders = MapDelete(@, orderId)]
    IN  IF simulationMode THEN Result(removed, FALSE, "removed")
        ELSE IF order = 0 THEN Result(removed, FALSE, "notfound")
        ELSE IF status \in {"FILLED", "CANCELED", "REJECTED"}
        THEN IF fails THEN Result(removed, FALSE, "completed")
                      ELSE Result(publishOrderUpdate(removed, order), FALSE, "completed")
        ELSE IF Elapsed(execution) > OrderTimeout
        THEN IF execution.attempts <= MaxOrderRetries
             THEN Result([st EXCEPT !.pendingOrders[orderId] =
                              [attempts |-> execution.attempts + 1,
                               sinceLastAttempt |-> 0]], FALSE, "retry")
             ELSE Result(cancelOrder(st, orderId, fails).st, FALSE, "cancel")
        ELSE Result(st, FALSE, "wait")

\* checkOrderStatus whose timeout branch retries whatever attempts is
checkOrderStatusUncapped(st, orderId, fails) ==
    LET execution == st.pendingOrders[orderId]
        order     == getOrder(st, orderId)
        status    == st.orderHistory[order].status
        removed   == [st EXCEPT !.pendingOrders = MapDelete(@, orderId)]
    IN  IF simulationMode THEN Result(removed, FALSE, "removed")
        ELSE IF order = 0 THEN Result(removed, FALSE, "notfound")
        ELSE IF status \in {"FILLED", "CANCELED", "REJECTED"}
        THEN IF fails THEN Result(removed, FALSE, "completed")
                      ELSE Result(publishOrderUpdate(removed, order), FALSE, "completed")
        ELSE IF Elapsed(execution) > OrderTimeout
        THEN Result([st EXCEPT !.pendingOrders[orderId] =
                         [attempts |-> Min(execution.attempts + 1, MaxOrderRetries),
                          sinceLastAttempt |-> 0]], FALSE, "retry")
        ELSE Result(st, FALSE, "wait")

\* checkOrderStatus(orderId, execution): fails = the awaited collaborator
\* call of the branch taken throws.
checkOrderStatus(st, orderId, fails) ==
    LET execution == st.pendingOrders[orderId]
        order     == getOrder(st, orderId)
        status    == st.orderHistory[order].status
        removed   == [st EXCEPT !.pendingOrders = MapDelete(@, orderId)]
    IN  IF simulationMode THEN Result(removed, FALSE, "removed")
        ELSE IF order = 0 THEN Result(removed, FALSE, "notfound")
        ELSE IF status \in {"FILLED", "CANCELED", "REJECTED"}
        THEN IF fails THEN Result(removed, FALSE, "completed")
                      ELSE Result(publishOrderUpdate(removed, order), FALSE, "completed")
        ELSE IF Elapsed(execution) > OrderTimeout
        THEN IF execution.attempts < MaxOrderRetries
             THEN Result([st EXCEPT !.pendingOrders[orderId] =
                              [attempts |-> execution.attempts + 1,
                               sinceLastAttempt |-> 0]], FALSE, "retry")
             ELSE Result(cancelOrder(st, orderId, fails).st, FALSE, "cancel")
        ELSE Result(st, FALSE, "wait")

\* The keys of a Map in iteration (insertion) order; ids grow with insertion.
RECURSIVE KeysInOrder(_)
KeysInOrder(ids) ==
    IF ids = {} THEN <<>>
    ELSE LET k == CHOOSE x \in ids : \A y \in ids : x <= y
         IN  <<k>> \o KeysInOrder(ids \ {k})

\* monitorOrders: one cycle over the pending orders; failing is the set of
\* orders whose collaborator call throws in this cycle.  ret maps each
\* order visited to the branch checkOrderStatus took for it.
RECURSIVE monitorLoop(_, _, _, _)
monitorLoop(st, keys, failing, seen) ==
    IF keys = <<>> THEN Result(st, FALSE, seen)
    ELSE With(checkOrderStatus(st, Head(keys), Head(keys) \in failing),
              LAMBDA r : monitorLoop(r.st, Tail(keys), failing,
                                     MapSet(seen, Head(keys), r.ret)))

monitorOrders(st, failing) ==
    monitorLoop(st, KeysInOrder(DOMAIN st.pendingOrders), failing, <<>>)

(***************************************************************************)
(* ExecutionService: positions                                             *)
(***************************************************************************)
\* Index of the position for symbol in the positions Map, 0 when absent.
PosIndex(positions, symbol) ==
    IF \E i \in 1..Len(positions) : positions[i].symbol = symbol
    THEN CHOOSE i \in 1..Len(positions) : positions[i].symbol = symbol
    ELSE 0

\* One iteration of the replay loop of getSimulatedPositions.
ReplayOrder(positions, order) ==
    LET i       == PosIndex(positions, order.symbol)
        newSize == IF order.side = "BUY"
                   THEN positions[i].size + order.executedQty
                   ELSE positions[i].size - order.executedQty
        entry   == IF newSize > 0
                   THEN (positions[i].entryPrice * (newSize - order.executedQty)
                           + order.averagePrice * order.executedQty) \div newSize
                   ELSE positions[i].entryPrice
    IN  IF order.status # "FILLED" THEN positions
        ELSE IF i # 0
        THEN [positions EXCEPT ![i].size = newSize, ![i].entryPrice = entry]
        ELSE Append(positions,
                    [symbol |-> order.symbol,
                     side |-> IF order.side = "BUY" THEN "LONG" ELSE "SHORT",
                     size |-> order.executedQty,
                     entryPrice |-> order.averagePrice])

RECURSIVE ReplayAll(_, _)
ReplayAll(positions, orders) ==
    IF orders = <<>> THEN positions
    ELSE ReplayAll(ReplayOrder(positions, Head(orders)), Tail(orders))

\* getSimulatedPositions: replay of the order history, positions of size > 0
getSimulatedPositions(history) ==
    SelectSeq(ReplayAll(<<>>, history), LAMBDA pos : pos.size > 0)

\* binanceAPI.getFuturesPositions: the positions of the account with a
\* non-zero amount.  The account is the exchange's; what it holds when the
\* call is made is an input (open: the symbols with a position).
RECURSIVE SymbolSeq(_)
SymbolSeq(syms) ==
    IF syms = {} THEN <<>>
    ELSE LET x == CHOOSE y \in syms : TRUE IN <<x>> \o SymbolSeq(syms \ {x})

getFuturesPositions(open) ==
    [i \in 1..Len(SymbolSeq(open)) |-> [symbol |-> SymbolSeq(open)[i]]]

\* closeSimulatedPosition(symbol): fault is the fault met by the closing
\* order's createOrder.  Throws when createOrder throws.
closeSimulatedPosition(st, symbol, md, fault) ==
    With(getSimulatedPositions(st.orderHistory),
         LAMBDA positions :
    With(PosIndex(positions, symbol),
         LAMBDA i :
    IF i = 0 THEN Result(st, FALSE, TRUE)
    ELSE With(createOrder(st,
                  [symbol |-> symbol,
                   side |-> IF positions[i].side = "LONG" THEN "SELL" ELSE "BUY",
                   quantity |-> positions[i].size],
                  md, fault, "FILLED"),
              LAMBDA made : Result(made.st, made.threw, ~made.threw))))

\* binanceAPI.closePosition(symbol): a market order placed on the exchange
\* directly (not through createOrder); nothing of this service changes.
binanceClosePosition(st, symbol, fault) ==
    Result(st, fault # "none", fault = "none")

\* The closePosition call for symbol has returned ret
closed(st, symbol, ret) ==
    [st EXCEPT !.closures = Append(@, [symbol |-> symbol, ret |-> ret])]

\* closePosition(symbol): catches, so never throws; ret is its boolean.
closePosition(st, symbol, md, fault) ==
    With(IF simulationMode
         THEN closeSimulatedPosition(st, symbol, md, fault)
         ELSE binanceClosePosition(st, symbol, fault),
         LAMBDA r : IF r.threw THEN Result(closed(r.st, symbol, FALSE), FALSE, FALSE)
                    ELSE Result(closed(r.st, symbol, r.ret), FALSE, r.ret))

\* closeAllPositions: faults gives, per symbol, the fault its closure meets;
\* fetchFails = getPositions throws, open = the exchange's positions (LIVE
\* only).  ret is results.every().
RECURSIVE closeLoop(_, _, _, _, _)
closeLoop(st, positions, md, faults, acc) ==
    IF positions = <<>> THEN Result(st, FALSE, acc)
    ELSE With(closePosition(st, Head(positions).symbol, md,
                            faults[Head(positions).symbol]),
              LAMBDA r : closeLoop(r.st, Tail(positions), md, faults,
                                   acc /\ r.ret))

\* The position list as close-all got it
listing(st, positions) ==
    [st EXCEPT !.listed = [i \in 1..Len(positions) |-> positions[i].symbol]]

\* Close-all that gives up after the first position of the list
closeAllPositionsHeadOnly(st, md, faults, fetchFails, open) ==
    LET positions == IF simulationMode
                     THEN getSimulatedPositions(st.orderHistory)
                     ELSE getFuturesPositions(open)
    IN  IF ~simulationMode /\ fetchFails THEN Result(st, FALSE, FALSE)
        ELSE closeLoop(listing(st, positions),
                       IF positions = <<>> THEN <<>> ELSE <<Head(positions)>>,
                       md, faults, TRUE)

closeAllPositions(st, md, faults, fetchFails, open) ==
    LET positions == IF simulationMode
                     THEN getSimulatedPositions(st.orderHistory)
                     ELSE getFuturesPositions(open)
    IN  IF ~simulationMode /\ fetchFails THEN Result(st, FALSE, FALSE)
        ELSE closeLoop(listing(st, positions), positions, md, faults, TRUE)

(***************************************************************************)
(* Message bus topology (src/src/utils/messageQueue.ts)                    *)
(***************************************************************************)
\* bindQueues: queue, exchange, binding pattern (words of the topic key)
Bindings ==
    { [queue |-> "market.data",     exchange |-> "trading",       pattern |-> <<"market", "*">>],
      [queue |-> "trading.signals", exchange |-> "trading",       pattern |-> <<"signal", "*">>],
      [queue |-> "risk.assessment", exchange |-> "trading",       pattern |-> <<"risk", "*">>],
      [queue |-> "order.execution", exchange |-> "trading",       pattern |-> <<"order", "*">>],
      [queue |-> "ai.decisions",    exchange |-> "trading",       pattern |-> <<"ai", "*">>],
      [queue |-> "notifications",   exchange |-> "notifications", pattern |-> <<>>],
      [queue |-> "health.checks",   exchange |-> "health",        pattern |-> <<>>] }

QueueNames == {b.queue : b \in Bindings}

\* The three components and the queue each subscribes to in initialize()
Components == {"strategy-engine", "risk-engine", "execution-service"}

Subscription(component) ==
    CASE component = "strategy-engine"   -> "trading.signals"
      [] component = "risk-engine"       -> "risk.assessment"
      [] component = "execution-service" -> "order.execution"

\* exchanges: 'trading' is a topic exchange, the other two are fanout
ExchangeType(exchange) == IF exchange = "trading" THEN "topic" ELSE "fanout"

\* AMQP topic match; '*' stands for exactly one word
TopicMatch(pattern, key) ==
    /\ Len(pattern) = Len(key)
    /\ \A i \in 1..Len(pattern) : pattern[i] = "*" \/ pattern[i] = key[i]

\* The queues a message published to exchange with routing key reaches
Route(exchange, key) ==
    { b.queue : b \in { x \in Bindings :
                          /\ x.exchange = exchange
                          /\ \/ ExchangeType(exchange) = "fanout"
                             \/ TopicMatch(x.pattern, key) } }

\* RiskEngineService.handleCommand: the method a message type dispatches to
RiskHandleCommand(type) ==
    CASE type = "START_TRADING"  -> "startRiskMonitoring"
      [] type = "STOP_TRADING"   -> "stopRiskMonitoring"
      [] type = "EMERGENCY_STOP" -> "executeEmergencyStop"
      [] OTHER                   -> "unknown"

\* StrategyEngineService.handleCommand
StrategyHandleCommand(type) ==
    CASE type = "START_TRADING"      -> "startSignalGeneration"
      [] type = "STOP_TRADING"       -> "stopSignalGeneration"
      [] type = "PAUSE_TRADING"      -> "pauseSignalGeneration"
      [] type = "CONFIG_UPDATE"      -> "updateConfiguration"
      [] type = "MARKET_DATA_UPDATE" -> "handleMarketDataUpdate"
      [] type = "EMERGENCY_STOP"     -> "emergencyStop"
      [] OTHER                       -> "unknown"

\* ExecutionService.handleCommand
ExecHandleCommand(type) ==
    CASE type = "START_TRADING"       -> "startOrderExecution"
      [] type = "STOP_TRADING"        -> "stopOrderExecution"
      [] type = "TRADING_SIGNAL"      -> "handleTradingSignal"
      [] type = "CLOSE_ALL_POSITIONS" -> "closeAllPositions"
      [] type = "EMERGENCY_STOP"      -> "emergencyStop"
      [] OTHER                        -> "unknown"

\* The reply Risk publishes to a message's replyTo queue: none of the
\* methods handleCommand dispatches to publishes one.
NoReply == [kind |-> "none", size |-> 0]

\* Risk answering a request with a proposal whenever it holds a snapshot
RiskReplySizing(type, payload, hasSnapshot) ==
    IF type = "REQUEST" /\ hasSnapshot THEN [kind |-> "reply", size |-> 1]
    ELSE NoReply

RiskReply(type, payload, hasSnapshot) ==
    CASE RiskHandleCommand(type) = "startRiskMonitoring"  -> NoReply
      [] RiskHandleCommand(type) = "stopRiskMonitoring"   -> NoReply
      [] RiskHandleCommand(type) = "executeEmergencyStop" -> NoReply
      [] OTHER                                            -> NoReply

\* messageQueue.request(exchange, routingKey, requestData, timeout) as its
\* caller sees it: it throws when the bus is not connected, resolves with
\* the payload of the reply carrying its correlation id, and rejects with
\* 'Request timeout' when no such reply arrives.
request(exchange, routingKey, requestData, connected, hasSnapshot) ==
    LET reply == IF "risk.assessment" \in Route(exchange, routingKey)
                 THEN RiskReply("REQUEST", requestData, hasSnapshot)
                 ELSE NoReply
    IN  IF ~connected THEN [kind |-> "throw", size |-> 0]
        ELSE IF reply.kind = "none" THEN [kind |-> "timeout", size |-> 0]
        ELSE reply

(***************************************************************************)
(* ExecutionService: signals, start/stop, emergency stop                   *)
(***************************************************************************)
\* The size test failing open: a request that timed out passes with the
\* size it carries.
SizingFailOpen(positionSize) ==
    positionSize.kind # "throw"

\* The test that lets handleTradingSignal go on to createOrder: the request
\* resolved (did not throw or time out) and  !(!positionSize || size <= 0)
SizingUsable(positionSize) ==
    positionSize.kind = "reply" /\ positionSize.size > 0

\* handleTradingSignal(signal): catches everything; ret is the id of the
\* order it created, 0 when none.  redisFails = redis.getMarketData throws.
handleTradingSignal(st, signal, md, redisFails, connected, hasSnapshot, fault, status) ==
    IF signal.action = "CLOSE"
    THEN Result(closePosition(st, signal.symbol, md, fault).st, FALSE, 0)
    ELSE IF redisFails \/ md[signal.symbol] = NoData
    THEN Result(st, FALSE, 0)
    ELSE With(request("trading", <<"risk", "calculate_size">>,
                      signal, connected, hasSnapshot),
              LAMBDA positionSize :
         IF ~SizingUsable(positionSize) THEN Result(st, FALSE, 0)
         ELSE With(createOrder(st,
                       [symbol |-> signal.symbol,
                        side |-> IF signal.action = "BUY" THEN "BUY" ELSE "SELL",
                        quantity |-> positionSize.size],
                       md, fault, status),
                   LAMBDA made : Result(made.st, FALSE, made.ret)))

\* startOrderExecution / stopOrderExecution on <<isExecuting, interval>>
startOrderExecution(run) ==
    IF run.isExecuting THEN run
    ELSE [isExecuting |-> TRUE, interval |-> TRUE]

stopOrderExecution(run) ==
    IF ~run.isExecuting THEN run
    ELSE [isExecuting |-> FALSE, interval |-> FALSE]

\* The cancel loop of emergencyStop over pendingOrders.keys()
RECURSIVE cancelLoop(_, _, _, _)
cancelLoop(st, keys, failing, log) ==
    IF keys = <<>> THEN Result(st, FALSE, log)
    ELSE With(cancelOrder(st, Head(keys), Head(keys) \in failing),
              LAMBDA r :
         With([log EXCEPT !.tried = @ \cup {Head(keys)},
                          !.failed = IF r.ret = TRUE THEN @
                                     ELSE @ \cup {Head(keys)}],
              LAMBDA log1 :
         IF r.threw THEN Result(r.st, TRUE, log1)
         ELSE cancelLoop(r.st, Tail(keys), failing, log1)))

EmptyLog == [pre |-> {}, tried |-> {}, failed |-> {}, closeTried |-> FALSE,
             closeRet |-> FALSE, stopTried |-> FALSE]

\* emergencyStop: ret is the log of the steps it reached; run is
\* <<isExecuting, interval>> and comes back in ret.run.
emergencyStop(st, run, md, failing, faults, fetchFails, open) ==
    With(cancelLoop(st, KeysInOrder(DOMAIN st.pendingOrders), failing,
                    [EmptyLog EXCEPT !.pre = DOMAIN st.pendingOrders]),
         LAMBDA c1 :
    IF c1.threw THEN Result(c1.st, TRUE, [log |-> c1.ret, run |-> run])
    ELSE With(closeAllPositions(c1.st, md, faults, fetchFails, open),
              LAMBDA c2 :
         With([c1.ret EXCEPT !.closeTried = TRUE, !.closeRet = c2.ret],
              LAMBDA log2 :
         IF c2.threw THEN Result(c2.st, TRUE, [log |-> log2, run |-> run])
         ELSE Result(c2.st, FALSE,
                     [log |-> [log2 EXCEPT !.stopTried = TRUE],
                      run |-> stopOrderExecution(run)]))))

(***************************************************************************)
(* Spec: the Execution component.  One action per handler; a handler runs  *)
(* to completion.  lastOp records the handler that ran last and what it    *)
(* returned and published.                                                 *)
(***************************************************************************)
SetExec(st) ==
    /\ pendingOrders' = st.pendingOrders
    /\ orderHistory' = st.orderHistory
    /\ simulatedBalance' = st.simulatedBalance
    /\ exStatus' = st.exStatus
    /\ lostFills' = st.lostFills
    /\ simExecutions' = st.simExecutions

Op(name) ==
    [op |-> name, threw |-> FALSE, ret |-> FALSE, created |-> 0,
     sizing |-> "none", outcomes |-> <<>>, faulted |-> FALSE, log |-> EmptyLog,
     orderUpdates |-> {}, fetched |-> FALSE, listed |-> <<>>,
     closures |-> <<>>, action |-> "none"]

FaultsOfMode ==
    IF simulationMode THEN {"none", "redisGet", "redisSet", "dbStore"}
    ELSE {"none", "exchange", "dbStore"}

\* binanceAPI.closePosition stores nothing
CloseFaultsOfMode == IF simulationMode THEN FaultsOfMode ELSE {"none", "exchange"}

StatusesOfMode == IF simulationMode THEN {"FILLED"} ELSE LiveCreateStatuses

\* No LIVE operation reads the side of an order
SidesOfMode == IF simulationMode THEN Sides ELSE {"BUY"}

\* What redis holds under market:<symbol> when a handler reads it.  Only
\* simulated fills and handleTradingSignal read it.
MarketReads == [Symbols -> {NoData} \cup Prices]
MarketPresent == [Symbols -> Prices]
ReadsOfMode == IF simulationMode THEN MarketPresent ELSE {[s \in Symbols |-> NoData]}
\* getPositions reaches the exchange only in LIVE mode
FetchOfMode == IF simulationMode THEN {FALSE} ELSE BOOLEAN
OpenOfMode == IF simulationMode THEN {{}} ELSE SUBSET Symbols
\* The inputs close-all gets to read: no positions when the fetch throws,
\* no closure faults in LIVE mode when the exchange holds no position.
OpenAfter(fetchFails) == IF fetchFails THEN {{}} ELSE OpenOfMode
FaultsAfter(open) ==
    IF ~simulationMode /\ open = {} THEN {[s \in Symbols |-> "none"]}
    ELSE [Symbols -> CloseFaultsOfMode]

\* MaxOrders bounds the orders requested of createOrder by a route or a
\* signal, recorded or lost; the closing orders of the positions they open
\* come on top, one more than that at most.
Requested == Len(orderHistory) + lostFills
OrderRoom == Requested < MaxOrders
CloseRoom ==
    \/ ~simulationMode
    \/ Requested + Len(getSimulatedPositions(orderHistory)) <= MaxOrders + 1

\* The bus after connect(): the queues are declared and bound, and empty.
BusInit ==
    /\ queues = [q \in QueueNames |-> <<>>]
    /\ sent = <<>>
    /\ publishes = 0
    /\ unroutable = {}
    /\ dispatched = {}
    /\ requests = <<>>
    /\ replies = {}
    /\ riskHasSnapshot = FALSE

\* Risk and Strategy after initialize(): each has started its timer.
SchedInit ==
    /\ isMonitoring = TRUE
    /\ monitoringInterval = TRUE
    /\ isAnalyzing = TRUE
    /\ analysisInterval = TRUE
    /\ running = [c \in Components |-> 0]
    /\ lastCommand = [c \in Components |-> "none"]

\* After construction and start(): initialize() has subscribed, loaded an
\* empty order table and called startOrderExecution.
ExecInit ==
    /\ simulationMode \in BOOLEAN
    /\ pendingOrders = <<>>
    /\ orderHistory = <<>>
    /\ isExecuting = TRUE
    /\ executionInterval = TRUE
    /\ simulatedBalance = InitialSimulatedBalance * Scale
    /\ exStatus = <<>>
    /\ lostFills = 0
    /\ simExecutions = <<>>
    /\ emergencyStopped = FALSE
    /\ lastOp = Op("init")

(***************************************************************************)
(* State of the Signal Aggregator and of the Risk Assessor                 *)
(***************************************************************************)
\* The strategies initializeStrategies registers, in the insertion order of
\* strategyConfigs (the order generateSignalsForSymbol visits them in)
StrategyOrder == <<"momentum", "mean-reversion", "funding-arbitrage">>

StrategyIds == {StrategyOrder[i] : i \in 1..Len(StrategyOrder)}

\* Weights are kept in hundredths: 40 stands for 0.4
DefaultWeight(id) == IF id = "momentum" THEN 40 ELSE 30

\* loadStrategyConfigurations: the default configurations, all enabled and
\* all configured for every trading symbol
DefaultConfigs ==
    [id \in StrategyIds |-> [enabled |-> TRUE, weight |-> DefaultWeight(id)]]

\* A JavaScript number: a rational n/d in lowest terms (d > 0), an
\* infinity (n is its sign) or NaN
Finite(n, d) == [k |-> "fin", n |-> n, d |-> d]
NaN == [k |-> "nan", n |-> 0, d |-> 1]
Infinity(sign) == [k |-> "inf", n |-> sign, d |-> 1]
Zero == Finite(0, 1)

\* { symbol, signals: [], aggregatedSignal: null, confidence: 0 }; the
\* resolved signal is a sequence of at most one element, <<>> for null.
\* The signals field is the list handed to aggregateSignals, which the
\* model keeps in analysis.signals.
EmptyDecision == [aggregatedSignal |-> <<>>, confidence |-> Zero]

\* No generateSignalsForSymbol call has been made
Idle ==
    [pc |-> "idle", symbol |-> "", data |-> FALSE, signals |-> <<>>,
     outcomes |-> <<>>, ret |-> EmptyDecision]

\* After the constructor and initialize(): the default configurations are
\* loaded (nothing saved), no decision is cached.
SignalInit ==
    /\ strategyConfigs = DefaultConfigs
    /\ currentSignals = <<>>
    /\ marketDataCache = [symbol \in Symbols |-> <<>>]
    /\ arrivals = [symbol \in Symbols |-> 0]
    /\ analysis = Idle

\* The constructor's riskLimits, with the defaults of
\* Config.MAX_DAILY_LOSS_PERCENT, Config.MAX_LEVERAGE and
\* Config.MAX_POSITION_PERCENT
DefaultDailyLossLimit == 5
DefaultMaxLeverage == 10
DefaultMaxPositionSize == 30

\* Config.DEFAULT_LEVERAGE when the environment does not set it
DefaultLeverage == 5

\* After the constructor: no snapshot yet (null is the empty sequence)
RiskInit ==
    /\ currentRiskMetrics = <<>>
    /\ riskLimits = [dailyLossLimit |-> DefaultDailyLossLimit,
                     maxLeverage |-> DefaultMaxLeverage,
                     maxPositionSize |-> DefaultMaxPositionSize]
    /\ lastAssessment = <<>>
    /\ lastProposal = <<>>

Init ==
    /\ ExecInit /\ BusInit /\ SchedInit /\ SignalInit /\ RiskInit
    /\ defaultLeverage = DefaultLeverage

\* POST /api/orders -> createOrderHandler -> createOrder, for a body with
\* one of symbols and of quantities while redis holds one of reads
CreateOrderOf(symbols, quantities, reads, room) ==
    \E symbol \in symbols, side \in SidesOfMode, quantity \in quantities,
       md \in reads, fault \in FaultsOfMode, status \in StatusesOfMode :
        /\ room
        /\ \E r \in {createOrder(ExecState,
                        [symbol |-> symbol, side |-> side, quantity |-> quantity],
                        md, fault, status)} :
               /\ SetExec(r.st)
               /\ lastOp' = [Op("createOrder") EXCEPT
                                !.threw = r.threw, !.created = r.ret,
                                !.orderUpdates = r.st.orderUpdates]
        /\ UNCHANGED <<simulationMode, isExecuting, executionInterval, emergencyStopped>>
        /\ UNCHANGED <<busVars, schedVars, signalVars, riskVars>>

CreateOrderHandler == CreateOrderOf(Symbols, Quantities, ReadsOfMode, OrderRoom)

\* DELETE /api/orders/:id -> cancelOrderHandler -> cancelOrder
CancelOrderHandler ==
    \E orderId \in 1..(Len(orderHistory) + 1), fails \in BOOLEAN :
        /\ \E r \in {cancelOrder(ExecState, orderId, fails)} :
               /\ SetExec(r.st)
               /\ lastOp' = [Op("cancelOrder") EXCEPT
                                !.threw = r.threw, !.ret = r.ret,
                                !.orderUpdates = r.st.orderUpdates]
        /\ UNCHANGED <<simulationMode, isExecuting, executionInterval, emergencyStopped>>
        /\ UNCHANGED <<busVars, schedVars, signalVars, riskVars>>

\* POST /api/positions/close/:symbol -> closePositionHandler -> closePosition
ClosePositionHandler ==
    \E symbol \in Symbols, md \in ReadsOfMode, fault \in CloseFaultsOfMode :
        /\ CloseRoom
        /\ \E r \in {closePosition(ExecState, symbol, md, fault)} :
               /\ SetExec(r.st)
               /\ lastOp' = [Op("closePosition") EXCEPT
                                !.threw = r.threw, !.ret = r.ret,
                                !.orderUpdates = r.st.orderUpdates]
        /\ UNCHANGED <<simulationMode, isExecuting, executionInterval, emergencyStopped>>
        /\ UNCHANGED <<busVars, schedVars, signalVars, riskVars>>

\* CLOSE_ALL_POSITIONS command and POST /api/positions/close-all, while
\* redis holds one of reads and the exchange positions in some of symbols
CloseAllOf(symbols, reads, room) ==
    \E md \in reads, fetchFails \in FetchOfMode :
    \E open \in (IF fetchFails \/ simulationMode THEN {{}} ELSE SUBSET symbols) :
    \E faults \in (IF ~simulationMode /\ open = {}
                    THEN {[s \in symbols |-> "none"]}
                    ELSE [symbols -> CloseFaultsOfMode]) :
        /\ room
        /\ \E r \in {closeAllPositions(ExecState, md, faults, fetchFails, open)} :
               /\ SetExec(r.st)
               /\ lastOp' = [Op("closeAllPositions") EXCEPT
                                !.threw = r.threw, !.ret = r.ret,
                                !.orderUpdates = r.st.orderUpdates,
                                !.fetched = ~fetchFails,
                                !.listed = r.st.listed,
                                !.closures = r.st.closures]
        /\ UNCHANGED <<simulationMode, isExecuting, executionInterval, emergencyStopped>>
        /\ UNCHANGED <<busVars, schedVars, signalVars, riskVars>>

CloseAllPositions == CloseAllOf(Symbols, ReadsOfMode, CloseRoom)

\* The setInterval callback of startOrderExecution: one monitorOrders cycle
MonitorOrders ==
    \E failing \in SUBSET (DOMAIN pendingOrders) :
        /\ executionInterval
        /\ \E r \in {monitorOrders(ExecState, failing)} :
               /\ SetExec(r.st)
               /\ lastOp' = [Op("monitorOrders") EXCEPT
                                !.outcomes = r.ret, !.faulted = failing # {},
                                !.orderUpdates = r.st.orderUpdates]
        /\ UNCHANGED <<simulationMode, isExecuting, executionInterval, emergencyStopped>>
        /\ UNCHANGED <<busVars, schedVars, signalVars, riskVars>>

\* How the sizing request of a signal ended
SizingOutcome(res) ==
    IF res.kind # "reply" THEN res.kind
    ELSE IF res.size > 0 THEN "usable" ELSE "nonpositive"

\* handleCommand: TRADING_SIGNAL, while whether Risk holds a snapshot is
\* one of snapshots.  An input is drawn only where the handler gets to read
\* it: the bus after the market data, the outcome of creating an order
\* after a usable size.
TradingSignalOf(snapshots) ==
    \E symbol \in Symbols, action \in {"BUY", "SELL", "CLOSE"} :
    \E md \in (IF action = "CLOSE" THEN ReadsOfMode ELSE MarketReads),
       redisFails \in (IF action = "CLOSE" THEN {FALSE} ELSE BOOLEAN) :
    \E connected \in (IF action = "CLOSE" \/ redisFails \/ md[symbol] = NoData
                      THEN {TRUE} ELSE BOOLEAN),
       hasSnapshot \in (IF action = "CLOSE" \/ redisFails \/ md[symbol] = NoData
                        THEN {TRUE} ELSE snapshots) :
    LET signal == [symbol |-> symbol, action |-> action]
        res    == request("trading", <<"risk", "calculate_size">>,
                          signal, connected, hasSnapshot)
        sized  == action # "CLOSE" /\ ~redisFails /\ md[symbol] # NoData
        create == sized /\ SizingUsable(res)
    IN  \E fault \in (IF action = "CLOSE" THEN CloseFaultsOfMode
                      ELSE IF create THEN FaultsOfMode ELSE {"none"}),
           status \in (IF create THEN StatusesOfMode ELSE {"FILLED"}) :
            /\ action = "CLOSE" => CloseRoom
            /\ create => OrderRoom
            /\ \E r \in {handleTradingSignal(ExecState, signal, md, redisFails,
                                            connected, hasSnapshot, fault, status)} :
                   /\ SetExec(r.st)
                   /\ lastOp' = [Op("TRADING_SIGNAL") EXCEPT
                                    !.created = r.ret,
                                    !.action = action,
                                    !.sizing = IF sized THEN SizingOutcome(res)
                                               ELSE "none",
                                    !.orderUpdates = r.st.orderUpdates]
            /\ UNCHANGED <<simulationMode, isExecuting, executionInterval, emergencyStopped>>
            /\ UNCHANGED <<busVars, schedVars, signalVars, riskVars>>

TradingSignal == TradingSignalOf(BOOLEAN)

\* handleCommand: START_TRADING
StartTrading ==
    LET run == startOrderExecution([isExecuting |-> isExecuting,
                                    interval |-> executionInterval])
    IN  /\ isExecuting' = run.isExecuting
        /\ executionInterval' = run.interval
        /\ lastOp' = Op("START_TRADING")
        /\ emergencyStopped' = FALSE
        /\ UNCHANGED <<simulationMode, pendingOrders, orderHistory, simulatedBalance,
                       exStatus, lostFills, simExecutions>>
        /\ UNCHANGED <<busVars, schedVars, signalVars, riskVars>>

\* handleCommand: STOP_TRADING
StopTrading ==
    LET run == stopOrderExecution([isExecuting |-> isExecuting,
                                   interval |-> executionInterval])
    IN  /\ isExecuting' = run.isExecuting
        /\ executionInterval' = run.interval
        /\ lastOp' = Op("STOP_TRADING")
        /\ UNCHANGED <<simulationMode, emergencyStopped, pendingOrders, orderHistory, simulatedBalance,
                       exStatus, lostFills, simExecutions>>
        /\ UNCHANGED <<busVars, schedVars, signalVars, riskVars>>

\* handleCommand: EMERGENCY_STOP
EmergencyStop ==
    \E md \in ReadsOfMode, failing \in SUBSET (DOMAIN pendingOrders),
       fetchFails \in FetchOfMode :
    \E open \in OpenAfter(fetchFails) :
    \E faults \in FaultsAfter(open) :
        /\ CloseRoom
        /\ \E r \in {emergencyStop(ExecState,
                                  [isExecuting |-> isExecuting,
                                   interval |-> executionInterval],
                                  md, failing, faults, fetchFails, open)} :
               /\ SetExec(r.st)
               /\ isExecuting' = r.ret.run.isExecuting
               /\ executionInterval' = r.ret.run.interval
               /\ lastOp' = [Op("EMERGENCY_STOP") EXCEPT
                                !.threw = r.threw, !.log = r.ret.log,
                                !.orderUpdates = r.st.orderUpdates]
        /\ emergencyStopped' = TRUE
        /\ UNCHANGED <<simulationMode>>
        /\ UNCHANGED <<busVars, schedVars, signalVars, riskVars>>

\* The exchange settles an open live order
ExchangeUpdate ==
    \E id \in 1..Len(orderHistory), status \in {"FILLED", "CANCELED"} :
        /\ ~simulationMode
        /\ exStatus[id] = "NEW"
        /\ exStatus' = [exStatus EXCEPT ![id] = status]
        /\ lastOp' = Op("env")
        /\ UNCHANGED <<simulationMode, pendingOrders, orderHistory, isExecuting,
                       executionInterval, simulatedBalance, lostFills,
                       simExecutions, emergencyStopped>>
        /\ UNCHANGED <<busVars, schedVars, signalVars, riskVars>>

\* The code reads an order's age only in checkOrderStatus, in LIVE mode and
\* past the test of the cached status, which no LIVE operation changes.
AgeRead(id) ==
    /\ ~simulationMode
    /\ orderHistory[id].status \notin {"FILLED", "CANCELED", "REJECTED"}

\* Time passes: one tick for every tracked order whose age is read.
\* Differences beyond the timeout are all alike to the code, so they are
\* not counted further.
Tick ==
    /\ \E id \in DOMAIN pendingOrders :
           AgeRead(id) /\ Elapsed(pendingOrders[id]) <= OrderTimeout
    /\ pendingOrders' =
           [id \in DOMAIN pendingOrders |->
               IF AgeRead(id) /\ Elapsed(pendingOrders[id]) <= OrderTimeout
               THEN [pendingOrders[id] EXCEPT !.sinceLastAttempt = @ + 1]
               ELSE pendingOrders[id]]
    /\ lastOp' = Op("env")
    /\ UNCHANGED <<simulationMode, orderHistory, isExecuting, executionInterval,
                   simulatedBalance, exStatus, lostFills, simExecutions,
                   emergencyStopped>>
    /\ UNCHANGED <<busVars, schedVars, signalVars, riskVars>>

Next ==
    \/ CreateOrderHandler
    \/ CancelOrderHandler
    \/ ClosePositionHandler
    \/ CloseAllPositions
    \/ MonitorOrders
    \/ TradingSignal
    \/ StartTrading
    \/ StopTrading
    \/ EmergencyStop
    \/ ExchangeUpdate
    \/ Tick

Spec == Init /\ [][Next]_vars

(***************************************************************************)
(* Properties of the Execution component (under Spec)                      *)
(***************************************************************************)
Tracked == DOMAIN pendingOrders

\* C1: after emergency stop has completed, the pending-orders map is empty
\* and the monitoring loop is halted (isExecuting false, no timer).
C1_EmergencyStopLeavesNothingTracked ==
    lastOp.op = "EMERGENCY_STOP" =>
        /\ Tracked = {}
        /\ ~isExecuting
        /\ ~executionInterval

\* C2: an order whose status is FILLED, CANCELED, REJECTED or EXPIRED never
\* changes status again, whatever handler runs.
C2_TerminalStatusIsFinal ==
    [][\A id \in 1..Len(orderHistory) :
          orderHistory[id].status \in TerminalStatuses =>
              orderHistory'[id].status = orderHistory[id].status]_vars

\* C3: in LIVE mode a monitoring cycle (none of whose awaited calls throws)
\* removes every tracked order the exchange reports as FILLED, CANCELED or
\* REJECTED and emits an ORDER_UPDATE carrying that status.
C3_MonitorFollowsExchange ==
    [][(~simulationMode /\ lastOp'.op = "monitorOrders" /\ ~lastOp'.faulted) =>
          \A id \in Tracked :
              exStatus[id] \in {"FILLED", "CANCELED", "REJECTED"} =>
                  /\ id \notin DOMAIN pendingOrders'
                  /\ <<id, exStatus[id]>> \in lastOp'.orderUpdates]_vars

\* C4: a monitoring cycle that finds a LIVE tracked order non-terminal and
\* overdue adds exactly one to attempts and resets lastAttempt while
\* attempts < maxOrderRetries; at attempts = maxOrderRetries it calls
\* cancelOrder instead and leaves attempts alone; and attempts never
\* exceeds maxOrderRetries.
C4_RetryThenCancel ==
    [][/\ \A id \in DOMAIN pendingOrders' :
              pendingOrders'[id].attempts <= MaxOrderRetries
       /\ (~simulationMode /\ lastOp'.op = "monitorOrders") =>
              \A id \in Tracked :
                  (/\ orderHistory[id].status \notin TerminalStatuses
                   /\ Elapsed(pendingOrders[id]) > OrderTimeout) =>
                      IF pendingOrders[id].attempts < MaxOrderRetries
                      THEN /\ id \in DOMAIN pendingOrders'
                           /\ pendingOrders'[id].attempts =
                                  pendingOrders[id].attempts + 1
                           /\ pendingOrders'[id].sinceLastAttempt = 0
                           /\ lastOp'.outcomes[id] = "retry"
                      ELSE /\ lastOp'.outcomes[id] = "cancel"
                           /\ id \in DOMAIN pendingOrders' =>
                                  pendingOrders'[id] = pendingOrders[id]]_vars

\* C4 witness: a cycle has cancelled an order that had used up its retries
C4_Witness ==
    /\ ~simulationMode
    /\ lastOp.op = "monitorOrders"
    /\ \E id \in DOMAIN lastOp.outcomes :
           /\ lastOp.outcomes[id] = "cancel"
           /\ id \notin Tracked
           /\ exStatus[id] = "CANCELED"

\* C5: a BUY/SELL signal whose sizing request threw, timed out or gave no
\* positive size creates no order, leaves pendingOrders and the simulated
\* balance as they were, and leaves the monitoring loop as it was; and the
\* test that lets a signal through to createOrder turns down every reply
\* whose size is not positive.
C5_SizingFailsClosed ==
    [][(lastOp'.op = "TRADING_SIGNAL" /\ lastOp'.sizing \notin {"none", "usable"}) =>
          /\ \A size \in -1..0 : ~SizingUsable([kind |-> "reply", size |-> size])
          /\ lastOp'.created = 0
          /\ orderHistory' = orderHistory
          /\ pendingOrders' = pendingOrders
          /\ simulatedBalance' = simulatedBalance
          /\ isExecuting' = isExecuting
          /\ executionInterval' = executionInterval]_vars

\* C5 witness: a signal whose sizing request timed out has been handled
\* with an order tracked and the monitoring loop running
C5_Witness ==
    /\ lastOp.op = "TRADING_SIGNAL"
    /\ lastOp.sizing = "timeout"
    /\ Tracked # {}
    /\ executionInterval

\* C10: emergency stop tries to cancel every order that was tracked, then
\* runs close-all, then halts the loop, whatever fails on the way, and
\* throws nothing.
C10_EmergencyStopRunsAllSteps ==
    lastOp.op = "EMERGENCY_STOP" =>
        /\ lastOp.log.tried = lastOp.log.pre
        /\ lastOp.log.closeTried
        /\ lastOp.log.stopTried
        /\ ~lastOp.threw
        /\ ~isExecuting
        /\ ~executionInterval

\* C10 witness: an emergency stop in which a cancel failed and close-all
\* failed has halted the loop
C10_Witness ==
    /\ lastOp.op = "EMERGENCY_STOP"
    /\ lastOp.log.failed # {}
    /\ lastOp.log.closeTried
    /\ ~lastOp.log.closeRet
    /\ lastOp.log.stopTried
    /\ ~isExecuting

(***************************************************************************)
(* SpecBus: publishing, routing and consuming.  A message is routed when   *)
(* it is published: it joins every queue a binding matches, and is lost    *)
(* when none does.  Each component consumes the queue it subscribed to and *)
(* dispatches on the message type in its handleCommand.                    *)
(***************************************************************************)
MaxPublishes == 2

\* The services broadcastTradingCommand publishes to, in its order
BroadcastServices ==
    <<"market-data", "strategy-engine", "risk-engine", "execution-service",
      "ai-advisor">>

\* The commands the orchestrator broadcasts
TradingCommands ==
    {"START_TRADING", "STOP_TRADING", "PAUSE_TRADING", "CONFIG_UPDATE",
     "EMERGENCY_STOP"}

Bus == [queues |-> queues, sent |-> sent, unroutable |-> unroutable]

SetBus(bus) ==
    /\ queues' = bus.queues
    /\ sent' = bus.sent
    /\ unroutable' = bus.unroutable

\* messageQueue.publish(exchange, routingKey, message) on a connected bus;
\* message.target names the service a broadcast copy is meant for.
publish(bus, exchange, routingKey, message) ==
    LET id == Len(bus.sent) + 1
        to == Route(exchange, routingKey)
        m  == [id |-> id, type |-> message.type,
               correlationId |-> message.correlationId]
    IN  [queues     |-> [q \in QueueNames |->
                            IF q \in to THEN Append(bus.queues[q], m)
                            ELSE bus.queues[q]],
         sent       |-> Append(bus.sent,
                               [type |-> message.type, key |-> routingKey,
                                source |-> message.source,
                                target |-> message.target]),
         unroutable |-> IF to = {} THEN bus.unroutable \cup {id}
                        ELSE bus.unroutable]

\* messageQueue.publishSignal(signal)
publishSignal(bus, symbol) ==
    publish(bus, "trading", <<"signal", symbol>>,
            [type |-> "TRADING_SIGNAL", source |-> "strategy-engine",
             target |-> "", correlationId |-> 0])

\* OrchestratorService.broadcastTradingCommand(command, payload)
RECURSIVE broadcastLoop(_, _, _)
broadcastLoop(bus, command, services) ==
    IF services = <<>> THEN bus
    ELSE broadcastLoop(
             publish(bus, "trading", <<"command", Head(services)>>,
                     [type |-> command, source |-> "orchestrator",
                      target |-> Head(services), correlationId |-> 0]),
             command, Tail(services))

broadcastTradingCommand(bus, command) ==
    broadcastLoop(bus, command, BroadcastServices)

\* The method a component's handleCommand dispatches a message type to
HandleCommand(component, type) ==
    CASE component = "strategy-engine"   -> StrategyHandleCommand(type)
      [] component = "risk-engine"       -> RiskHandleCommand(type)
      [] component = "execution-service" -> ExecHandleCommand(type)

InQueue(q, id) == \E i \in 1..Len(queues[q]) : queues[q][i].id = id

InFlight(correlationId) ==
    \E q \in QueueNames : \E i \in 1..Len(queues[q]) :
        queues[q][i].correlationId = correlationId

\* The orchestrator starts, stops, pauses, reconfigures or emergency-stops
OrchestratorBroadcast ==
    \E command \in TradingCommands :
        /\ publishes < MaxPublishes
        /\ publishes' = publishes + 1
        /\ SetBus(broadcastTradingCommand(Bus, command))
        /\ UNCHANGED <<dispatched, requests, replies, riskHasSnapshot>>
        /\ UNCHANGED <<execVars, schedVars, signalVars, riskVars>>

\* OrchestratorService.closeAllPositions publishes order.close_all
OrchestratorCloseAll ==
    /\ publishes < MaxPublishes
    /\ publishes' = publishes + 1
    /\ SetBus(publish(Bus, "trading", <<"order", "close_all">>,
                      [type |-> "CLOSE_ALL_POSITIONS", source |-> "orchestrator",
                       target |-> "", correlationId |-> 0]))
    /\ UNCHANGED <<dispatched, requests, replies, riskHasSnapshot>>
    /\ UNCHANGED <<execVars, schedVars, signalVars, riskVars>>

\* generateSignalsForSymbol publishes an actionable decision
PublishSignal ==
    \E symbol \in Symbols :
        /\ publishes < MaxPublishes
        /\ publishes' = publishes + 1
        /\ SetBus(publishSignal(Bus, symbol))
        /\ UNCHANGED <<dispatched, requests, replies, riskHasSnapshot>>
        /\ UNCHANGED <<execVars, schedVars, signalVars, riskVars>>

\* handleTradingSignal calls messageQueue.request('trading',
\* 'risk.calculate_size', ...): a REQUEST carrying a fresh correlation id
SizeRequest ==
    LET c == Len(requests) + 1
    IN  /\ publishes < MaxPublishes
        /\ publishes' = publishes + 1
        /\ SetBus(publish(Bus, "trading", <<"risk", "calculate_size">>,
                          [type |-> "REQUEST", source |-> "requester",
                           target |-> "", correlationId |-> c]))
        /\ requests' = Append(requests, [state |-> "pending", risk |-> "unseen"])
        /\ UNCHANGED <<dispatched, replies, riskHasSnapshot>>
        /\ UNCHANGED <<execVars, schedVars, signalVars, riskVars>>

\* updateRiskMetrics has stored a snapshot in currentRiskMetrics
RiskSnapshot ==
    /\ ~riskHasSnapshot
    /\ riskHasSnapshot' = TRUE
    /\ UNCHANGED <<queues, sent, publishes, unroutable, dispatched, requests, replies>>
    /\ UNCHANGED <<execVars, schedVars, signalVars, riskVars>>

\* The consumer callback of subscribe(): handler(message), then ack
Consume(component) ==
    LET q      == Subscription(component)
        m      == Head(queues[q])
        method == HandleCommand(component, m.type)
        reply  == RiskReply(m.type, m, riskHasSnapshot)
    IN  /\ queues[q] # <<>>
        /\ queues' = [queues EXCEPT ![q] = Tail(@)]
        /\ dispatched' = dispatched \cup
               {[id |-> m.id, consumer |-> component, method |-> method]}
        /\ replies' = IF component = "risk-engine" /\ reply.kind # "none"
                      THEN replies \cup {[correlationId |-> m.correlationId,
                                          size |-> reply.size]}
                      ELSE replies
        /\ requests' = IF component = "risk-engine" /\ m.type = "REQUEST"
                       THEN [requests EXCEPT ![m.correlationId].risk =
                                IF riskHasSnapshot THEN "snapshot" ELSE "nosnapshot"]
                       ELSE requests
        /\ UNCHANGED <<sent, publishes, unroutable, riskHasSnapshot>>
        /\ UNCHANGED <<execVars, schedVars, signalVars, riskVars>>

StrategyConsume == Consume("strategy-engine")
RiskConsume == Consume("risk-engine")
ExecutionConsume == Consume("execution-service")

\* The promise of request() settles: it resolves with the reply that
\* carries its correlation id, and rejects with 'Request timeout' once the
\* REQUEST has left the bus and no such reply has come.
RequestSettles ==
    \E c \in 1..Len(requests) :
        /\ requests[c].state = "pending"
        /\ ~InFlight(c)
        /\ requests' = [requests EXCEPT ![c].state =
               IF \E r \in replies : r.correlationId = c
               THEN "resolved" ELSE "timeout"]
        /\ UNCHANGED <<queues, sent, publishes, unroutable, dispatched, replies,
                       riskHasSnapshot>>
        /\ UNCHANGED <<execVars, schedVars, signalVars, riskVars>>

NextBus ==
    \/ OrchestratorBroadcast
    \/ OrchestratorCloseAll
    \/ PublishSignal
    \/ SizeRequest
    \/ RiskSnapshot
    \/ StrategyConsume
    \/ RiskConsume
    \/ ExecutionConsume
    \/ RequestSettles

SpecBus == Init /\ [][NextBus]_vars

\* C6: a size request that Risk handled while holding a snapshot has a
\* reply with its correlation id, and does not end in a timeout.
C6_RiskRepliesWithCorrelationId ==
    \A c \in 1..Len(requests) :
        requests[c].risk = "snapshot" =>
            /\ requests[c].state # "timeout"
            /\ \/ requests[c].state = "resolved"
               \/ \E r \in replies : r.correlationId = c

\* C7: every TRADING_SIGNAL the aggregator has published waits in the
\* queue Execution consumes or has been dispatched by Execution to
\* handleTradingSignal.
C7_SignalsReachExecution ==
    \A id \in 1..Len(sent) :
        (sent[id].type = "TRADING_SIGNAL" /\ sent[id].source = "strategy-engine") =>
            \/ InQueue(Subscription("execution-service"), id)
            \/ [id |-> id, consumer |-> "execution-service",
                method |-> "handleTradingSignal"] \in dispatched

\* C8: every copy of a broadcast command meant for one of the three
\* components waits in that component's queue or has been dispatched by it
\* to a method other than the unknown-command branch.
C8_CommandsReachComponents ==
    \A id \in 1..Len(sent) :
        (/\ sent[id].source = "orchestrator"
         /\ sent[id].type \in TradingCommands
         /\ sent[id].target \in Components) =>
            \/ InQueue(Subscription(sent[id].target), id)
            \/ \E d \in dispatched :
                   /\ d.id = id
                   /\ d.consumer = sent[id].target
                   /\ d.method # "unknown"

(***************************************************************************)
(* SpecSched: the periodic timers.  setInterval calls its callback at      *)
(* every period whether or not the promise of the previous call has        *)
(* settled; clearInterval stops further calls and leaves a running cycle   *)
(* alone.                                                                  *)
(***************************************************************************)
MaxInFlight == 2

\* The commands that start, stop or pause the periodic work
TimerCommands ==
    {"START_TRADING", "STOP_TRADING", "PAUSE_TRADING", "EMERGENCY_STOP"}

\* The component has handled a command of the given type
Handled(component, type) ==
    lastCommand' = IF type \in TimerCommands
                   THEN [lastCommand EXCEPT ![component] = type]
                   ELSE lastCommand

\* RiskEngineService.startRiskMonitoring / stopRiskMonitoring
startRiskMonitoring(run) ==
    IF run.isMonitoring THEN run
    ELSE [isMonitoring |-> TRUE, interval |-> TRUE]

stopRiskMonitoring(run) ==
    IF ~run.isMonitoring THEN run
    ELSE [isMonitoring |-> FALSE, interval |-> FALSE]

\* StrategyEngineService.startSignalGeneration / stop / pause
startSignalGeneration(run) ==
    IF run.isAnalyzing THEN run
    ELSE [isAnalyzing |-> TRUE, interval |-> TRUE]

stopSignalGeneration(run) ==
    IF ~run.isAnalyzing THEN run
    ELSE [isAnalyzing |-> FALSE, interval |-> FALSE]

pauseSignalGeneration(run) ==
    [run EXCEPT !.interval = FALSE]

\* StrategyEngineService.handleCommand on the timer state
StrategyCommand ==
    \E type \in TradingCommands :
        LET run    == [isAnalyzing |-> isAnalyzing, interval |-> analysisInterval]
            method == StrategyHandleCommand(type)
            after  == CASE method = "startSignalGeneration" -> startSignalGeneration(run)
                        [] method = "stopSignalGeneration"  -> stopSignalGeneration(run)
                        [] method = "pauseSignalGeneration" -> pauseSignalGeneration(run)
                        [] method = "emergencyStop"         -> stopSignalGeneration(run)
                        [] OTHER                            -> run
        IN  /\ isAnalyzing' = after.isAnalyzing
            /\ analysisInterval' = after.interval
            /\ Handled("strategy-engine", type)
            /\ UNCHANGED <<isMonitoring, monitoringInterval, running>>
            /\ UNCHANGED <<execVars, busVars, signalVars, riskVars>>

\* RiskEngineService.handleCommand on the timer state
RiskCommand ==
    \E type \in TradingCommands :
        LET run    == [isMonitoring |-> isMonitoring, interval |-> monitoringInterval]
            method == RiskHandleCommand(type)
            after  == CASE method = "startRiskMonitoring"  -> startRiskMonitoring(run)
                        [] method = "stopRiskMonitoring"   -> stopRiskMonitoring(run)
                        [] method = "executeEmergencyStop" -> stopRiskMonitoring(run)
                        [] OTHER                           -> run
        IN  /\ isMonitoring' = after.isMonitoring
            /\ monitoringInterval' = after.interval
            /\ Handled("risk-engine", type)
            /\ UNCHANGED <<isAnalyzing, analysisInterval, running>>
            /\ UNCHANGED <<execVars, busVars, signalVars, riskVars>>

\* ExecutionService.handleCommand on the timer state, with no order tracked
\* and no position open
ExecutionCommand ==
    \E type \in TradingCommands :
        LET run    == [isExecuting |-> isExecuting, interval |-> executionInterval]
            method == ExecHandleCommand(type)
            after  == CASE method = "startOrderExecution" -> startOrderExecution(run)
                        [] method = "stopOrderExecution"  -> stopOrderExecution(run)
                        [] method = "emergencyStop"       -> stopOrderExecution(run)
                        [] OTHER                          -> run
        IN  /\ isExecuting' = after.isExecuting
            /\ executionInterval' = after.interval
            /\ emergencyStopped' = CASE method = "emergencyStop" -> TRUE
                                      [] method = "startOrderExecution" -> FALSE
                                      [] OTHER -> emergencyStopped
            /\ UNCHANGED <<simulationMode, pendingOrders, orderHistory,
                           simulatedBalance, exStatus, lostFills,
                           simExecutions, lastOp>>
            /\ Handled("execution-service", type)
            /\ UNCHANGED <<isMonitoring, monitoringInterval, isAnalyzing,
                           analysisInterval, running>>
            /\ UNCHANGED <<busVars, signalVars, riskVars>>

\* Whether the component's interval timer is scheduled
Scheduled(component) ==
    CASE component = "strategy-engine"   -> analysisInterval
      [] component = "risk-engine"       -> monitoringInterval
      [] component = "execution-service" -> executionInterval

\* A period elapses: the timer calls the async callback, which starts a
\* cycle (performAnalysis, performRiskAssessment, monitorOrders)
TimerFires ==
    \E component \in Components :
        /\ Scheduled(component)
        /\ running[component] < MaxInFlight
        /\ running' = [running EXCEPT ![component] = @ + 1]
        /\ UNCHANGED <<isMonitoring, monitoringInterval, isAnalyzing,
                       analysisInterval, lastCommand>>
        /\ UNCHANGED <<execVars, busVars, signalVars, riskVars>>

\* The awaited calls of a cycle return and the cycle ends
CycleCompletes ==
    \E component \in Components :
        /\ running[component] > 0
        /\ running' = [running EXCEPT ![component] = @ - 1]
        /\ UNCHANGED <<isMonitoring, monitoringInterval, isAnalyzing,
                       analysisInterval, lastCommand>>
        /\ UNCHANGED <<execVars, busVars, signalVars, riskVars>>

NextSched ==
    \/ StrategyCommand
    \/ RiskCommand
    \/ ExecutionCommand
    \/ TimerFires
    \/ CycleCompletes

SpecSched == Init /\ [][NextSched]_vars

\* C9: no component has two cycles of its periodic work running at once.
C9_CyclesDoNotOverlap ==
    \A component \in Components : running[component] <= 1

(***************************************************************************)
(* The aggregator's numbers.  The code computes scores and confidences in  *)
(* IEEE doubles; signal confidences are whole numbers and weights whole    *)
(* hundredths here, and the model computes with them exactly, as           *)
(* rationals, keeping the two values a division by zero yields: an         *)
(* infinity and NaN.  (The admission check's numbers are rounded as the    *)
(* doubles they are: see F64Round.)                                        *)
(***************************************************************************)
Abs(x) == IF x < 0 THEN -x ELSE x

Sign(x) == IF x < 0 THEN -1 ELSE IF x > 0 THEN 1 ELSE 0

RECURSIVE Gcd(_, _)
Gcd(a, b) == IF b = 0 THEN a ELSE Gcd(b, a % b)

\* n/d in lowest terms with a positive denominator (d # 0)
Normal(n, d) ==
    LET g == Gcd(Abs(n), Abs(d))
    IN  Finite(Sign(d) * (n \div g), Abs(d) \div g)

\* a * b
JSMul(a, b) ==
    IF a.k = "nan" \/ b.k = "nan" THEN NaN
    ELSE IF a.k = "fin" /\ b.k = "fin" THEN Normal(a.n * b.n, a.d * b.d)
    ELSE IF a.n = 0 \/ b.n = 0 THEN NaN
    ELSE Infinity(Sign(a.n) * Sign(b.n))

\* a / b; a finite number over zero is an infinity, 0 / 0 is NaN
JSDiv(a, b) ==
    IF a.k = "nan" \/ b.k = "nan" THEN NaN
    ELSE IF a.k = "inf" /\ b.k = "inf" THEN NaN
    ELSE IF a.k = "inf" THEN Infinity(a.n * (IF b.n < 0 THEN -1 ELSE 1))
    ELSE IF b.k = "inf" THEN Zero
    ELSE IF b.n = 0 THEN (IF a.n = 0 THEN NaN ELSE Infinity(Sign(a.n)))
    ELSE Normal(a.n * b.d, a.d * b.n)

\* a > b; every comparison with NaN is false
JSGt(a, b) ==
    IF a.k = "nan" \/ b.k = "nan" THEN FALSE
    ELSE IF a.k = "inf" THEN a.n > 0 /\ ~(b.k = "inf" /\ b.n > 0)
    ELSE IF b.k = "inf" THEN b.n < 0
    ELSE a.n * b.d > b.n * a.d

\* Math.min(a, b): NaN when either is NaN
JSMin(a, b) ==
    IF a.k = "nan" \/ b.k = "nan" THEN NaN
    ELSE IF JSGt(a, b) THEN b ELSE a

Whole(n) == Finite(n, 1)

(***************************************************************************)
(* StrategyEngineService: aggregation (src/unnamed/part_000)               *)
(***************************************************************************)
\* const weight = strategy?.weight || 0.33, in hundredths
FallbackWeight == 33

sourceWeight(configs, strategy) ==
    IF strategy \in DOMAIN configs /\ configs[strategy].weight # 0
    THEN configs[strategy].weight
    ELSE FallbackWeight

\* Object.keys(groupedSignals): the actions in the order of their first signal
RECURSIVE ActionKeys(_, _)
ActionKeys(signals, seen) ==
    IF signals = <<>> THEN seen
    ELSE ActionKeys(Tail(signals),
                    IF \E i \in 1..Len(seen) : seen[i] = Head(signals).action
                    THEN seen ELSE Append(seen, Head(signals).action))

\* actionScores[action]: the sum of confidence * weight over the signals of
\* the action, in hundredths
RECURSIVE actionScore(_, _, _)
actionScore(configs, signals, action) ==
    IF signals = <<>> THEN 0
    ELSE (IF Head(signals).action = action
          THEN Head(signals).confidence * sourceWeight(configs, Head(signals).strategy)
          ELSE 0)
         + actionScore(configs, Tail(signals), action)

\* Object.keys(actionScores).reduce((a, b) => actionScores[a] > actionScores[b] ? a : b)
RECURSIVE bestActionFrom(_, _, _, _)
bestActionFrom(configs, signals, a, keys) ==
    IF keys = <<>> THEN a
    ELSE bestActionFrom(configs, signals,
                        IF actionScore(configs, signals, a)
                               > actionScore(configs, signals, Head(keys))
                        THEN a ELSE Head(keys),
                        Tail(keys))

\* The first of the actions with the highest score
bestActionFirstSeen(configs, signals) ==
    LET keys == ActionKeys(signals, <<>>)
        score(i) == actionScore(configs, signals, keys[i])
    IN  keys[CHOOSE i \in 1..Len(keys) :
                 /\ \A j \in 1..Len(keys) : score(j) <= score(i)
                 /\ \A j \in 1..(i - 1) : score(j) < score(i)]

bestAction(configs, signals) ==
    bestActionFrom(configs, signals, Head(ActionKeys(signals, <<>>)),
                   Tail(ActionKeys(signals, <<>>)))

\* The weights summed over every configuration, enabled or not
RECURSIVE maxPossibleScoreOfAll(_, _)
maxPossibleScoreOfAll(configs, ids) ==
    IF ids = <<>> THEN 0
    ELSE configs[Head(ids)].weight + maxPossibleScoreOfAll(configs, Tail(ids))

\* maxPossibleScore: weight * 100 summed over the enabled configurations
\* that list the symbol (every configuration lists every symbol)
RECURSIVE maxPossibleScore(_, _)
maxPossibleScore(configs, ids) ==
    IF ids = <<>> THEN 0
    ELSE (IF configs[Head(ids)].enabled THEN configs[Head(ids)].weight ELSE 0)
         + maxPossibleScore(configs, Tail(ids))

\* The test with the bound included
ResolvesFromFifty(confidence, action) ==
    ~JSGt(Whole(50), confidence) /\ action # "HOLD"

\* confidence > 50 && bestAction !== 'HOLD'
Resolves(confidence, action) ==
    JSGt(confidence, Whole(50)) /\ action # "HOLD"

\* A resolved signal that always buys
aggregateSignalsBuying(configs, signals) ==
    IF Len(signals) = 0 THEN EmptyDecision
    ELSE With(bestAction(configs, signals), LAMBDA best :
         With(JSMin(Whole(100),
                    JSMul(JSDiv(Normal(actionScore(configs, signals, best), 100),
                                Whole(maxPossibleScore(configs, StrategyOrder))),
                          Whole(100))),
              LAMBDA confidence :
                  [aggregatedSignal |->
                       IF Resolves(confidence, best)
                       THEN <<[action |-> "BUY", confidence |-> confidence]>>
                       ELSE <<>>,
                   confidence |-> confidence]))

\* aggregateSignals(symbol, signals)
aggregateSignals(configs, signals) ==
    IF Len(signals) = 0 THEN EmptyDecision
    ELSE With(bestAction(configs, signals), LAMBDA best :
         With(JSMin(Whole(100),
                    JSMul(JSDiv(Normal(actionScore(configs, signals, best), 100),
                                Whole(maxPossibleScore(configs, StrategyOrder))),
                          Whole(100))),
              LAMBDA confidence :
                  [aggregatedSignal |->
                       IF Resolves(confidence, best)
                       THEN <<[action |-> best, confidence |-> confidence]>>
                       ELSE <<>>,
                   confidence |-> confidence]))

(***************************************************************************)
(* SpecSignal: strategy configuration and the analysis of an instrument.   *)
(* One action per call of generateSignalsForSymbol; the configuration      *)
(* routes run between calls.                                               *)
(***************************************************************************)
\* What a strategy's analyze() may do: throw, or return the signals it
\* found (the built-in strategies return one at most, stamped with their
\* id).  Signals carry the actions the aggregator tells apart and the ends
\* of the confidence range.
SignalKinds ==
    {[action |-> "BUY", confidence |-> 100], [action |-> "SELL", confidence |-> 100],
     [action |-> "HOLD", confidence |-> 100], [action |-> "BUY", confidence |-> 0]}

Outcomes ==
    {[threw |-> TRUE, signals |-> <<>>], [threw |-> FALSE, signals |-> <<>>]}
    \cup {[threw |-> FALSE, signals |-> <<k>>] : k \in SignalKinds}

\* The weights a configuration update sets: none at all, or the default
ConfigWeights(id) == {0, DefaultWeight(id)}

\* The configurations the for-loop does not skip: enabled and listing the
\* symbol (every configuration lists every symbol)
Evaluated(configs) == {id \in StrategyIds : configs[id].enabled}

\* strategy: this.id
Stamp(signals, id) ==
    [i \in 1..Len(signals) |->
        [action |-> signals[i].action, confidence |-> signals[i].confidence,
         strategy |-> id]]

\* A throw that empties the list gathered so far
collectOrReset(signals, id, outcome) ==
    IF outcome.threw THEN <<>> ELSE signals \o Stamp(outcome.signals, id)

\* try { signals.push(...await strategy.analyze()) } catch { log }
collect(signals, id, outcome) ==
    IF outcome.threw THEN signals ELSE signals \o Stamp(outcome.signals, id)

\* for (const [strategyId, config] of this.strategyConfigs) { ... }
RECURSIVE gather(_, _, _, _)
gather(configs, outcomes, ids, signals) ==
    IF ids = <<>> THEN signals
    ELSE gather(configs, outcomes, Tail(ids),
                IF Head(ids) \in Evaluated(configs)
                THEN collect(signals, Head(ids), outcomes[Head(ids)])
                ELSE signals)

\* The publishing test one threshold too low
SignificantAboveFifty(aggregation) ==
    aggregation.aggregatedSignal # <<>> /\ JSGt(aggregation.confidence, Whole(50))

\* aggregation.aggregatedSignal && aggregation.confidence > 60
Significant(aggregation) ==
    aggregation.aggregatedSignal # <<>> /\ JSGt(aggregation.confidence, Whole(60))

\* The length the window is kept to
WindowSize == 100

\* handleMarketDataUpdate: cache.push(data), then cache.shift() when the
\* window holds more than WindowSize points
handleMarketDataUpdate(cache, data) ==
    IF Len(cache) + 1 > WindowSize THEN Tail(Append(cache, data))
    ELSE Append(cache, data)

\* What redis.getMarketData(symbol) does when it is called: it finds no
\* key, returns the snapshot stored under market:<symbol>, or throws
RedisReads == {"null", "value", "throws"}

\* The snapshot under market:<symbol>; the observations that arrive in
\* MARKET_DATA_UPDATE messages are numbered from 1 in arrival order
Snapshot == 0

\* The window length below which getMarketDataForSymbol turns to redis
CacheMinimum == 10

\* getMarketDataForSymbol: the window when it holds CacheMinimum points;
\* otherwise redis is read, and a snapshot found there replaces the window
getMarketDataForSymbol(cache, read) ==
    IF Len(cache) >= CacheMinimum
    THEN [cache |-> cache, marketData |-> cache, threw |-> FALSE]
    ELSE IF read = "throws"
    THEN [cache |-> cache, marketData |-> <<>>, threw |-> TRUE]
    ELSE IF read = "value"
    THEN [cache |-> <<Snapshot>>, marketData |-> <<Snapshot>>, threw |-> FALSE]
    ELSE [cache |-> cache, marketData |-> cache, threw |-> FALSE]

\* generateSignalsForSymbol (the timer's performAnalysis, or
\* POST /api/signals/generate/:symbol).  Without market data, or when
\* reading it throws, it returns the empty decision and caches no decision.
GenerateSignalsOf(results) ==
    \E symbol \in Symbols :
    \E got \in {getMarketDataForSymbol(marketDataCache[symbol], read) :
                    read \in RedisReads} :
        /\ marketDataCache' = [marketDataCache EXCEPT ![symbol] = got.cache]
        /\ IF got.threw \/ got.marketData = <<>>
           THEN /\ analysis' = [Idle EXCEPT !.pc = "done", !.symbol = symbol]
                /\ UNCHANGED <<currentSignals, queues, sent, publishes, unroutable>>
           ELSE \E outcomes \in [Evaluated(strategyConfigs) -> results] :
                \E signals \in {gather(strategyConfigs, outcomes, StrategyOrder, <<>>)} :
                \E aggregation \in {aggregateSignals(strategyConfigs, signals)} :
                   /\ currentSignals' = MapSet(currentSignals, symbol, aggregation)
                   /\ IF Significant(aggregation)
                      THEN /\ publishes < MaxPublishes
                           /\ publishes' = publishes + 1
                           /\ SetBus(publishSignal(Bus, symbol))
                      ELSE UNCHANGED <<queues, sent, publishes, unroutable>>
                   /\ analysis' = [pc |-> "done", symbol |-> symbol,
                                   data |-> TRUE, signals |-> signals,
                                   outcomes |-> outcomes, ret |-> aggregation]
        /\ UNCHANGED <<strategyConfigs, arrivals, dispatched, requests, replies,
                       riskHasSnapshot>>
        /\ UNCHANGED <<execVars, schedVars, riskVars>>

GenerateSignals == GenerateSignalsOf(Outcomes)

\* POST /api/strategies/enable/:id and /disable/:id
EnableStrategy ==
    \E id \in StrategyIds :
        /\ ~strategyConfigs[id].enabled
        /\ strategyConfigs' = [strategyConfigs EXCEPT ![id].enabled = TRUE]
        /\ analysis' = Idle
        /\ UNCHANGED <<currentSignals, marketDataCache, arrivals>>
        /\ UNCHANGED <<execVars, busVars, schedVars, riskVars>>

DisableStrategy ==
    \E id \in StrategyIds :
        /\ strategyConfigs[id].enabled
        /\ strategyConfigs' = [strategyConfigs EXCEPT ![id].enabled = FALSE]
        /\ analysis' = Idle
        /\ UNCHANGED <<currentSignals, marketDataCache, arrivals>>
        /\ UNCHANGED <<execVars, busVars, schedVars, riskVars>>

\* PUT /api/strategies/:id/config with a weight
UpdateStrategyConfig ==
    \E id \in StrategyIds : \E weight \in ConfigWeights(id) :
        /\ strategyConfigs[id].weight # weight
        /\ strategyConfigs' = [strategyConfigs EXCEPT ![id].weight = weight]
        /\ analysis' = Idle
        /\ UNCHANGED <<currentSignals, marketDataCache, arrivals>>
        /\ UNCHANGED <<execVars, busVars, schedVars, riskVars>>

NextSignal ==
    \/ GenerateSignals
    \/ EnableStrategy
    \/ DisableStrategy
    \/ UpdateStrategyConfig

\* The strategy engine never reads the execution mode: BOT_MODE keeps its
\* default, SIM
InitSim == Init /\ simulationMode

SpecSignal == InitSim /\ [][NextSignal]_vars

(***************************************************************************)
(* Properties of the aggregation and of the analysis (SpecSignal)          *)
(***************************************************************************)
\* A call that found market data has just returned
Analysed == analysis.pc = "done" /\ analysis.data

\* C11: the decision of an analysis carries a resolved signal exactly when
\* the computed confidence is above 50 and the best action is not HOLD; the
\* resolved signal has the best action and the computed confidence, and a
\* decision without one keeps the computed confidence.
C11_ResolvedIffConfidentAndNotHold ==
    Analysed =>
        /\ analysis.ret.aggregatedSignal # <<>>
               <=> /\ analysis.signals # <<>>
                   /\ JSGt(analysis.ret.confidence, Whole(50))
                   /\ bestAction(strategyConfigs, analysis.signals) # "HOLD"
        /\ analysis.ret.aggregatedSignal # <<>> =>
               /\ analysis.ret.aggregatedSignal[1].action
                      = bestAction(strategyConfigs, analysis.signals)
               /\ analysis.ret.aggregatedSignal[1].action # "HOLD"
               /\ analysis.ret.aggregatedSignal[1].confidence = analysis.ret.confidence

\* An analysis has returned a decision with a resolved signal
C11_Witness ==
    /\ Analysed
    /\ analysis.ret.aggregatedSignal # <<>>
    /\ JSGt(analysis.ret.confidence, Whole(50))

C14_UnanimousActionIsResolved ==
    (/\ Analysed
     /\ analysis.signals # <<>>
     /\ \A i \in 1..Len(analysis.signals) :
            analysis.signals[i].action = analysis.signals[1].action
     /\ analysis.ret.aggregatedSignal # <<>>)
        => analysis.ret.aggregatedSignal[1].action = analysis.signals[1].action

\* Two sources agree on SELL and the decision resolves
C14_Witness ==
    /\ Analysed
    /\ Len(analysis.signals) >= 2
    /\ \A i \in 1..Len(analysis.signals) : analysis.signals[i].action = "SELL"
    /\ analysis.ret.aggregatedSignal # <<>>

\* C15: an analysis in which a source's analyze throws still evaluates the
\* other enabled sources: the signals it aggregates are exactly those the
\* sources that did not throw returned, and it stores one decision for the
\* instrument, the aggregation of those signals, leaving the decisions of
\* other instruments alone.
C15_ThrowingSourceIsIsolated ==
    [][(/\ analysis'.pc = "done" /\ analysis'.data
        /\ \E id \in DOMAIN analysis'.outcomes : analysis'.outcomes[id].threw) =>
          /\ DOMAIN analysis'.outcomes = Evaluated(strategyConfigs)
          /\ \A id \in DOMAIN analysis'.outcomes :
                 \A k \in 1..Len(analysis'.outcomes[id].signals) :
                     \E i \in 1..Len(analysis'.signals) :
                         /\ analysis'.signals[i].strategy = id
                         /\ analysis'.signals[i].action
                                = analysis'.outcomes[id].signals[k].action
                         /\ analysis'.signals[i].confidence
                                = analysis'.outcomes[id].signals[k].confidence
          /\ \A i \in 1..Len(analysis'.signals) :
                 /\ analysis'.signals[i].strategy \in DOMAIN analysis'.outcomes
                 /\ ~analysis'.outcomes[analysis'.signals[i].strategy].threw
          /\ analysis'.ret = aggregateSignals(strategyConfigs, analysis'.signals)
          /\ DOMAIN currentSignals' = DOMAIN currentSignals \cup {analysis'.symbol}
          /\ currentSignals'[analysis'.symbol] = analysis'.ret
          /\ \A symbol \in DOMAIN currentSignals \ {analysis'.symbol} :
                 currentSignals'[symbol] = currentSignals[symbol]]_vars

\* The second source threw after the first had returned a signal, the third
\* returned one too, and the stored decision resolves from the two
C15_Witness ==
    /\ Analysed
    /\ DOMAIN analysis.outcomes = StrategyIds
    /\ analysis.outcomes["mean-reversion"].threw
    /\ Len(analysis.signals) = 2
    /\ analysis.signals[1].strategy = "momentum"
    /\ analysis.signals[2].strategy = "funding-arbitrage"
    /\ analysis.ret.aggregatedSignal # <<>>
    /\ currentSignals[analysis.symbol] = analysis.ret

(***************************************************************************)
(* JavaScript numbers as IEEE-754 binary64 values, rounded to nearest,     *)
(* ties to even.  A finite value is s * m * 2^e with m a whole number of   *)
(* 53 bits kept as limbs of 15 bits, least significant first (a whole      *)
(* number of 53 bits and the product of two do not fit TLC's integers).    *)
(* Magnitudes stay far from the overflow and subnormal ranges, and the     *)
(* sign of a zero is not kept.                                             *)
(***************************************************************************)
LimbBits == 15
LimbBase == 2^15
MantissaBits == 53

\* The element of a set of one element
TheOne(oneElementSet) == CHOOSE theElement \in oneElementSet : TRUE

RECURSIVE Trim(_)
Trim(a) ==
    IF a # <<>> /\ a[Len(a)] = 0 THEN Trim(SubSeq(a, 1, Len(a) - 1)) ELSE a

RECURSIVE FromNat(_)
FromNat(n) == IF n = 0 THEN <<>> ELSE <<n % LimbBase>> \o FromNat(n \div LimbBase)

Lo(a) == IF a = <<>> THEN 0 ELSE Head(a)
Hi(a) == IF a = <<>> THEN <<>> ELSE Tail(a)

RECURSIVE BAddC(_, _, _)
BAddC(a, b, c) ==
    IF a = <<>> /\ b = <<>> THEN FromNat(c)
    ELSE <<(Lo(a) + Lo(b) + c) % LimbBase>>
         \o BAddC(Hi(a), Hi(b), (Lo(a) + Lo(b) + c) \div LimbBase)

BAdd(a, b) == Trim(BAddC(a, b, 0))

\* a - b for a >= b
RECURSIVE BSubC(_, _, _)
BSubC(a, b, c) ==
    IF a = <<>> THEN <<>>
    ELSE IF Lo(a) - Lo(b) - c < 0
         THEN <<Lo(a) - Lo(b) - c + LimbBase>> \o BSubC(Hi(a), Hi(b), 1)
         ELSE <<Lo(a) - Lo(b) - c>> \o BSubC(Hi(a), Hi(b), 0)

BSub(a, b) == Trim(BSubC(a, b, 0))

\* -1, 0, 1 as a < b, a = b, a > b
RECURSIVE BCmpAt(_, _, _)
BCmpAt(a, b, i) ==
    IF i = 0 THEN 0
    ELSE IF a[i] # b[i] THEN (IF a[i] < b[i] THEN -1 ELSE 1)
    ELSE BCmpAt(a, b, i - 1)

BCmp(a, b) ==
    IF Len(a) # Len(b) THEN (IF Len(a) < Len(b) THEN -1 ELSE 1)
    ELSE BCmpAt(a, b, Len(a))

\* a * k + c for a limb k
RECURSIVE BMulSmall(_, _, _)
BMulSmall(a, k, c) ==
    IF a = <<>> THEN FromNat(c)
    ELSE <<(Head(a) * k + c) % LimbBase>>
         \o BMulSmall(Tail(a), k, (Head(a) * k + c) \div LimbBase)

RECURSIVE BMul(_, _)
BMul(a, b) ==
    IF a = <<>> \/ b = <<>> THEN <<>>
    ELSE Trim(BAddC(BMulSmall(a, Head(b), 0), <<0>> \o BMul(a, Tail(b)), 0))

\* a * 2^k
BShl(a, k) ==
    IF a = <<>> THEN <<>>
    ELSE Trim([i \in 1..(k \div LimbBits) |-> 0]
              \o BMulSmall(a, 2^(k % LimbBits), 0))

\* floor(a / d) for a limb d, from limb i down with remainder r
RECURSIVE BDivSmallAt(_, _, _, _)
BDivSmallAt(a, d, i, r) ==
    IF i = 0 THEN <<>>
    ELSE BDivSmallAt(a, d, i - 1, (r * LimbBase + a[i]) % d)
         \o <<(r * LimbBase + a[i]) \div d>>

\* floor(a / 2^k)
BShr(a, k) ==
    IF Len(a) <= k \div LimbBits THEN <<>>
    ELSE Trim(BDivSmallAt(SubSeq(a, (k \div LimbBits) + 1, Len(a)),
                          2^(k % LimbBits),
                          Len(a) - (k \div LimbBits), 0))

RECURSIVE NatBits(_)
NatBits(n) == IF n = 0 THEN 0 ELSE 1 + NatBits(n \div 2)

BitLen(a) == IF a = <<>> THEN 0 ELSE LimbBits * (Len(a) - 1) + NatBits(a[Len(a)])

F64NaN == [k |-> "nan", s |-> 0, m |-> <<>>, e |-> 0]
F64Inf(s) == [k |-> "inf", s |-> s, m |-> <<>>, e |-> 0]
F64Zero == [k |-> "fin", s |-> 0, m |-> <<>>, e |-> 0]

\* The double nearest to s * (n + t) * 2^e, n > 0, where t is 0 or, when
\* sticky, some amount between 0 and 1
F64Round(s, n, e, sticky) ==
    IF BitLen(n) <= MantissaBits
    THEN [k |-> "fin", s |-> s, m |-> BShl(n, MantissaBits - BitLen(n)),
          e |-> e - (MantissaBits - BitLen(n))]
    ELSE TheOne({TheOne({TheOne({
             IF BitLen(r) > MantissaBits
             THEN [k |-> "fin", s |-> s, m |-> BShr(r, 1), e |-> e + sh + 1]
             ELSE [k |-> "fin", s |-> s, m |-> r, e |-> e + sh] :
           r \in {IF c > 0 \/ (c = 0 /\ (sticky \/ q[1] % 2 = 1))
                  THEN BAdd(q, <<1>>) ELSE q}}) :
           c \in {BCmp(BSub(n, BShl(q, sh)), BShl(<<1>>, sh - 1))}}) :
           sh \in {BitLen(n) - MantissaBits}, q \in {BShr(n, BitLen(n) - MantissaBits)}})

\* A whole number as a double
F64(n) ==
    IF n = 0 THEN F64Zero
    ELSE F64Round(IF n < 0 THEN -1 ELSE 1, FromNat(IF n < 0 THEN -n ELSE n), 0, FALSE)

\* a * b
F64MulOf(a, b) ==
    IF a.k = "nan" \/ b.k = "nan" THEN F64NaN
    ELSE IF a.k = "inf" \/ b.k = "inf"
         THEN (IF a.s = 0 \/ b.s = 0 THEN F64NaN ELSE F64Inf(a.s * b.s))
    ELSE IF a.s = 0 \/ b.s = 0 THEN F64Zero
    ELSE TheOne({F64Round(a.s * b.s, product, a.e + b.e, FALSE) :
                     product \in {BMul(a.m, b.m)}})

F64Mul(x, y) == TheOne({F64MulOf(left, right) : left \in {x}, right \in {y}})

\* One bit of a quotient: from <<quotient, rest>> with rest < 2 * d
DivideStep(qr, d) ==
    IF BCmp(qr[2], d) >= 0
    THEN <<BAdd(BShl(qr[1], 1), <<1>>), BShl(BSub(qr[2], d), 1)>>
    ELSE <<BShl(qr[1], 1), BShl(qr[2], 1)>>

\* i bits of a quotient
RECURSIVE DivideSteps(_, _, _)
DivideSteps(qr, d, i) ==
    IF i = 0 THEN qr
    ELSE TheOne({DivideSteps(qr2, d2, i2) :
                   qr2 \in {DivideStep(qr, d)}, d2 \in {d}, i2 \in {i - 1}})

\* <<floor(n * 2^(8 * blocks - 1) / d), a rest that is zero when nothing
\* remains>> for n < 2 * d, eight bits at a time
RECURSIVE LongDivide(_, _, _)
LongDivide(qr, d, blocks) ==
    IF blocks = 0 THEN qr
    ELSE TheOne({LongDivide(qr2, d2, blocks2) :
                   qr2 \in {DivideSteps(qr, d, 8)}, d2 \in {d},
                   blocks2 \in {blocks - 1}})

\* a / b
F64DivOf(a, b) ==
    IF a.k = "nan" \/ b.k = "nan" THEN F64NaN
    ELSE IF a.k = "inf"
         THEN (IF b.k = "inf" THEN F64NaN
               ELSE F64Inf(a.s * (IF b.s < 0 THEN -1 ELSE 1)))
    ELSE IF b.k = "inf" THEN F64Zero
    ELSE IF b.s = 0 THEN (IF a.s = 0 THEN F64NaN ELSE F64Inf(a.s))
    ELSE IF a.s = 0 THEN F64Zero
    ELSE TheOne({F64Round(a.s * b.s, qr[1], a.e - b.e - (MantissaBits + 2),
                          qr[2] # <<>>) :
                     qr \in {LongDivide(<<<<>>, a.m>>, b.m, 7)}})

F64Div(x, y) == TheOne({F64DivOf(left, right) : left \in {x}, right \in {y}})

\* -1, 0, 1 as |a| < |b|, |a| = |b|, |a| > |b|, of finite values
F64CmpAbs(a, b) ==
    IF a.s = 0 \/ b.s = 0
    THEN (IF a.s = 0 /\ b.s = 0 THEN 0 ELSE IF a.s = 0 THEN -1 ELSE 1)
    ELSE IF a.e # b.e THEN (IF a.e < b.e THEN -1 ELSE 1)
    ELSE BCmp(a.m, b.m)

\* a > b; every comparison with NaN is false
F64GtOf(a, b) ==
    IF a.k = "nan" \/ b.k = "nan" THEN FALSE
    ELSE IF a.k = "inf" THEN a.s > 0 /\ ~(b.k = "inf" /\ b.s > 0)
    ELSE IF b.k = "inf" THEN b.s < 0
    ELSE IF a.s # b.s THEN a.s > b.s
    ELSE IF a.s > 0 THEN F64CmpAbs(a, b) > 0
    ELSE IF a.s < 0 THEN F64CmpAbs(a, b) < 0
    ELSE FALSE

F64Gt(x, y) == TheOne({F64GtOf(left, right) : left \in {x}, right \in {y}})

F64Neg(a) == [a EXCEPT !.s = -a.s]

\* a + b of finite values
F64AddFinite(a, b) ==
    IF a.s = 0 THEN b
    ELSE IF b.s = 0 THEN a
    ELSE TheOne({
             IF p[1].e - p[2].e > MantissaBits + 3 THEN p[1]
             ELSE IF p[1].s = p[2].s
             THEN TheOne({F64Round(p[1].s, total, p[2].e, FALSE) :
                     total \in {BAdd(BShl(p[1].m, p[1].e - p[2].e), p[2].m)}})
             ELSE IF F64CmpAbs(a, b) = 0 THEN F64Zero
             ELSE TheOne({F64Round(p[1].s, rest, p[2].e, FALSE) :
                     rest \in {BSub(BShl(p[1].m, p[1].e - p[2].e), p[2].m)}}) :
           p \in {IF F64CmpAbs(a, b) >= 0 THEN <<a, b>> ELSE <<b, a>>}})

\* a + b
F64AddOf(a, b) ==
    IF a.k = "nan" \/ b.k = "nan" THEN F64NaN
    ELSE IF a.k = "inf" THEN (IF b.k = "inf" /\ b.s # a.s THEN F64NaN ELSE a)
    ELSE IF b.k = "inf" THEN b
    ELSE F64AddFinite(a, b)

F64Add(x, y) == TheOne({F64AddOf(left, right) : left \in {x}, right \in {y}})

\* a - b
F64Sub(a, b) == F64Add(a, F64Neg(b))

\* Math.abs(a)
F64Abs(a) == [a EXCEPT !.s = IF a.s < 0 THEN 1 ELSE a.s]

\* A whole number, negative or not, as a double
F64Int(i) == IF i < 0 THEN F64Neg(F64(-i)) ELSE F64(i)

\* The whole number a sequence of limbs stands for (one that fits an
\* integer of the model)
RECURSIVE ToNat(_)
ToNat(a) == IF a = <<>> THEN 0 ELSE Head(a) + LimbBase * ToNat(Tail(a))

\* Math.ceil(a) of a finite value, as a whole number
F64CeilOf(a) ==
    IF a.s = 0 THEN 0
    ELSE IF a.e >= 0 THEN a.s * ToNat(BShl(a.m, a.e))
    ELSE TheOne({IF a.s < 0 THEN -ToNat(whole)
                 ELSE IF BShl(whole, -a.e) = a.m THEN ToNat(whole)
                 ELSE ToNat(whole) + 1 :
                 whole \in {BShr(a.m, -a.e)}})

F64Ceil(x) == TheOne({F64CeilOf(value) : value \in {x}})

(***************************************************************************)
(* SpecRisk: RiskEngineService.validatePosition                            *)
(* (src/src/services/RiskEngineService.ts)                                 *)
(***************************************************************************)
\* What the exchange reports as balance.total, what calculate_daily_pnl
\* returns for today and the sum of the positions' marginUsed
Balances == {0, 10000}
DailyPnLs == {-200, 0, 450}
MarginsUsed == {0, 6500, 8500}

\* The levels of determineRiskLevel, lowest first
RiskLevelOrder == <<"LOW", "MEDIUM", "HIGH", "CRITICAL">>
RiskLevels == {RiskLevelOrder[i] : i \in 1..Len(RiskLevelOrder)}

\* Bodies of PUT /api/risk/limits, each with some of the limits:
\* dailyLossLimit in 0..50, maxLeverage in 1..125, maxPositionSize in 0..100
LimitUpdates ==
    {[dailyLossLimit |-> <<3>>, maxLeverage |-> <<>>, maxPositionSize |-> <<>>],
     [dailyLossLimit |-> <<>>, maxLeverage |-> <<20>>, maxPositionSize |-> <<1>>],
     [dailyLossLimit |-> <<DefaultDailyLossLimit>>,
      maxLeverage |-> <<DefaultMaxLeverage>>,
      maxPositionSize |-> <<DefaultMaxPositionSize>>]}

\* POST /api/risk/validate-position: side LONG or SHORT, size and price
\* positive, leverage in 1..125
PositionSides == {"LONG", "SHORT"}
PositionSizes == {1, 100}
Leverages == {5, 15}
PositionPrices == {79, 100}

\* The test with the flag left out
tradeAllowedWithSnapshot(metrics) == metrics # <<>>

\* this.currentRiskMetrics?.isTradeAllowed
tradeAllowed(metrics) == metrics # <<>> /\ metrics[1].isTradeAllowed

\* this.currentRiskMetrics?.totalBalance || 0
totalBalanceOf(metrics) == IF metrics = <<>> THEN F64Zero ELSE F64(metrics[1].totalBalance)

\* The requested leverage whatever the limit
recommendedLeverageAsRequested(leverage, limits) == leverage

\* recommendedLeverage: leverage, or the limit when leverage exceeds it
recommendedLeverage(leverage, limits) ==
    IF leverage > limits.maxLeverage THEN limits.maxLeverage ELSE leverage

\* positionPercent = (size * price / totalBalance) * 100
positionPercent(size, price, totalBalance) ==
    F64Mul(F64Div(F64Mul(size, price), totalBalance), F64(100))

\* positionPercent > this.riskLimits.maxPositionSize
exceedsPositionLimit(size, price, totalBalance, limits) ==
    F64Gt(positionPercent(size, price, totalBalance), F64(limits.maxPositionSize))

\* The second test made only when the first passes
rejectionsFirstOnly(overLeverage, overSize) ==
    IF overLeverage THEN <<"leverage">>
    ELSE IF overSize THEN <<"position size">> ELSE <<>>

\* reasons.push in the leverage test and in the position-size test
rejections(overLeverage, overSize) ==
    (IF overLeverage THEN <<"leverage">> ELSE <<>>)
    \o (IF overSize THEN <<"position size">> ELSE <<>>)

\* The literal 0.02
TwoHundredths == F64Div(F64(2), F64(100))

\* totalBalance * 0.02
riskAmount(totalBalance) == F64Mul(totalBalance, TwoHundredths)

\* side === 'LONG' ? price - stopLossDistance : price + stopLossDistance
stopLossFor(side, size, price, totalBalance) ==
    IF side = "LONG"
    THEN F64Sub(price, F64Div(riskAmount(totalBalance), size))
    ELSE F64Add(price, F64Div(riskAmount(totalBalance), size))

\* validatePosition(positionData); numbers of the request become doubles
validatePosition(metrics, limits, data) ==
    IF ~tradeAllowed(metrics)
    THEN [isAllowed |-> FALSE, riskLevel |-> "CRITICAL",
          reasons |-> <<"trading not allowed">>,
          recommendedSize |-> F64(data.size),
          recommendedLeverage |-> data.leverage,
          maxAllowedSize |-> F64(data.size), stopLoss |-> F64Zero]
    ELSE TheOne({
           [isAllowed |-> rejections(overLeverage, overSize) = <<>>,
            riskLevel |-> "LOW",
            reasons |-> rejections(overLeverage, overSize),
            recommendedSize |-> IF overSize THEN fitting ELSE F64(data.size),
            recommendedLeverage |-> recommendedLeverage(data.leverage, limits),
            maxAllowedSize |-> IF overSize THEN fitting ELSE F64(data.size),
            stopLoss |-> stopLossFor(data.side, F64(data.size), F64(data.price),
                                     totalBalanceOf(metrics))] :
           overLeverage \in {data.leverage > limits.maxLeverage},
           overSize \in {exceedsPositionLimit(F64(data.size), F64(data.price),
                                              totalBalanceOf(metrics), limits)},
           fitting \in {F64Div(F64Div(F64Mul(totalBalanceOf(metrics),
                                             F64(limits.maxPositionSize)),
                                      F64(100)),
                               F64(data.price))}})

\* marginUsage = totalBalance > 0 ? (totalMarginUsed / totalBalance) * 100 : 0
marginUsageOf(totalMarginUsed, totalBalance) ==
    IF totalBalance > 0
    THEN F64Mul(F64Div(F64(totalMarginUsed), F64(totalBalance)), F64(100))
    ELSE F64Zero

\* dailyLossPercent = Math.abs(this.dailyPnL / totalBalance) * 100
dailyLossPercent(dailyPnL, totalBalance) ==
    F64Mul(F64Abs(F64Div(F64Int(dailyPnL), F64(totalBalance))), F64(100))

\* this.riskLimits.dailyLossLimit * 0.8, * 0.6, * 0.3: tenths is 8, 6 or 3
lossThreshold(limits, tenths) ==
    F64Mul(F64(limits.dailyLossLimit), F64Div(F64(tenths), F64(10)))

\* The test with its two conditions joined by "and"
exceedsBoth(lossPercent, marginUsage, limits, tenths, usage) ==
    /\ F64Gt(lossPercent, lossThreshold(limits, tenths))
    /\ F64Gt(marginUsage, F64(usage))

\* One test of determineRiskLevel:
\* dailyLossPercent > dailyLossLimit * 0.t || marginUsage > usage
exceeds(lossPercent, marginUsage, limits, tenths, usage) ==
    \/ F64Gt(lossPercent, lossThreshold(limits, tenths))
    \/ F64Gt(marginUsage, F64(usage))

\* determineRiskLevel, from the dailyLossPercent it computes first
riskLevelOf(lossPercent, marginUsage, limits) ==
    IF exceeds(lossPercent, marginUsage, limits, 8, 80) THEN "CRITICAL"
    ELSE IF exceeds(lossPercent, marginUsage, limits, 6, 60) THEN "HIGH"
    ELSE IF exceeds(lossPercent, marginUsage, limits, 3, 40) THEN "MEDIUM"
    ELSE "LOW"

\* determineRiskLevel(totalBalance, unrealizedPnl, marginUsage)
determineRiskLevel(dailyPnL, totalBalance, marginUsage, limits) ==
    TheOne({riskLevelOf(lossPercent, usage, limits) :
            lossPercent \in {dailyLossPercent(dailyPnL, totalBalance)},
            usage \in {marginUsage}})

\* The snapshot updateRiskMetrics stores: trading allowed unless the level
\* is CRITICAL
snapshotOf(totalBalance, dailyPnL, marginUsage, riskLevel) ==
    [totalBalance |-> totalBalance, dailyPnL |-> dailyPnL,
     marginUsage |-> marginUsage, riskLevel |-> riskLevel,
     isTradeAllowed |-> riskLevel # "CRITICAL"]

\* No handler of the Risk service is between its computation and its reply
RiskIdle == lastAssessment = <<>> /\ lastProposal = <<>>

\* updateRiskMetrics (the monitoring timer): a new snapshot
UpdateRiskMetrics ==
    /\ RiskIdle
    /\ \E totalBalance \in Balances : \E dailyPnL \in DailyPnLs :
       \E totalMarginUsed \in MarginsUsed :
       \E marginUsage \in {marginUsageOf(totalMarginUsed, totalBalance)} :
       \E riskLevel \in {determineRiskLevel(dailyPnL, totalBalance, marginUsage,
                                             riskLimits)} :
        /\ currentRiskMetrics' =
               <<snapshotOf(totalBalance, dailyPnL, marginUsage, riskLevel)>>
        /\ currentRiskMetrics' # currentRiskMetrics
        /\ riskHasSnapshot' = TRUE
        /\ UNCHANGED <<riskLimits, lastAssessment, lastProposal, defaultLeverage>>
        /\ UNCHANGED <<queues, sent, publishes, unroutable, dispatched, requests, replies>>
        /\ UNCHANGED <<execVars, schedVars, signalVars>>

\* this.riskLimits = { ...this.riskLimits, ...updates }
mergeLimits(limits, updates) ==
    [key \in DOMAIN limits |->
        IF updates[key] = <<>> THEN limits[key] ELSE updates[key][1]]

\* PUT /api/risk/limits -> updateRiskLimits
UpdateRiskLimits ==
    \E updates \in LimitUpdates :
        /\ RiskIdle
        /\ riskLimits' = mergeLimits(riskLimits, updates)
        /\ riskLimits' # riskLimits
        /\ UNCHANGED <<currentRiskMetrics, lastAssessment, lastProposal,
                       defaultLeverage>>
        /\ UNCHANGED <<execVars, busVars, schedVars, signalVars>>

\* POST /api/risk/validate-position: validatePositionHandler has the
\* assessment of the request
ValidatePosition ==
    \E side \in PositionSides : \E size \in PositionSizes :
    \E leverage \in Leverages : \E price \in PositionPrices :
        /\ RiskIdle
        /\ lastAssessment' =
               <<[data |-> [side |-> side, size |-> size,
                            leverage |-> leverage, price |-> price],
                  assessment |-> validatePosition(currentRiskMetrics, riskLimits,
                                     [side |-> side, size |-> size,
                                      leverage |-> leverage, price |-> price])]>>
        /\ UNCHANGED <<currentRiskMetrics, riskLimits, lastProposal, defaultLeverage>>
        /\ UNCHANGED <<execVars, busVars, schedVars, signalVars>>

\* ... and sends it: this.sendResponse(res, true, assessment)
SendAssessment ==
    /\ lastAssessment # <<>>
    /\ lastAssessment' = <<>>
    /\ UNCHANGED <<currentRiskMetrics, riskLimits, lastProposal, defaultLeverage>>
    /\ UNCHANGED <<execVars, busVars, schedVars, signalVars>>

NextRisk ==
    \/ UpdateRiskMetrics
    \/ UpdateRiskLimits
    \/ ValidatePosition
    \/ SendAssessment

SpecRisk == InitSim /\ [][NextRisk]_vars

(***************************************************************************)
(* SpecSizing: RiskEngineService.calculateOptimalPositionSize behind       *)
(* POST /api/risk/calculate-size, with the snapshot and the limits changing *)
(* between calls.  DEFAULT_LEVERAGE is read from the environment once.     *)
(***************************************************************************)
\* Values of DEFAULT_LEVERAGE a deployment sets
ConfiguredLeverages == {DefaultLeverage, 25}

\* POST /api/risk/calculate-size: action BUY or SELL, confidence in 0..100,
\* stopLoss positive when given (<<>> when not), currentPrice positive
SizingActions == {"BUY", "SELL"}
SizingConfidences == {0, 6, 100}
SizingStopLosses == {<<>>, <<95>>}
SizingPrices == {11, 100}

\* baseSize = (totalBalance * maxRiskPerTrade * confidenceMultiplier) / currentPrice
baseSizeOf(totalBalance, confidence, currentPrice) ==
    F64Div(F64Mul(F64Mul(totalBalance, TwoHundredths),
                  F64Div(F64(confidence), F64(100))),
           currentPrice)

\* maxSize = (totalBalance * (maxPositionSize / 100)) / currentPrice
maxSizeOf(totalBalance, limits, currentPrice) ==
    F64Div(F64Mul(totalBalance, F64Div(F64(limits.maxPositionSize), F64(100))),
           currentPrice)

\* The size without the cap
cappedSizeUncapped(baseSize, maxSize) == baseSize

\* if (baseSize > maxSize) baseSize = maxSize
cappedSize(baseSize, maxSize) == IF F64Gt(baseSize, maxSize) THEN maxSize ELSE baseSize

\* The size of the proposal
sizeFor(totalBalance, limits, confidence, currentPrice) ==
    TheOne({cappedSize(baseSize, maxSize) :
            baseSize \in {baseSizeOf(totalBalance, confidence, currentPrice)},
            maxSize \in {maxSizeOf(totalBalance, limits, currentPrice)}})

\* Math.ceil(Config.DEFAULT_LEVERAGE * (1 + (signal.confidence - 50) / 100))
scaledLeverage(leverage, confidence) ==
    F64Ceil(F64Mul(F64(leverage),
                   F64Add(F64(1), F64Div(F64Int(confidence - 50), F64(100)))))

\* Math.min(Math.ceil(...), this.riskLimits.maxLeverage)
sizingLeverage(leverage, confidence, limits) ==
    TheOne({IF scaled < limits.maxLeverage THEN scaled ELSE limits.maxLeverage :
            scaled \in {scaledLeverage(leverage, confidence)}})

\* signal.stopLoss ? Math.abs(currentPrice - signal.stopLoss) : currentPrice * 0.02
sizingStopDistance(stopLoss, currentPrice) ==
    IF stopLoss # <<>>
    THEN F64Abs(F64Sub(currentPrice, F64(stopLoss[1])))
    ELSE F64Mul(currentPrice, TwoHundredths)

\* calculateOptimalPositionSize(signal, currentPrice) with a snapshot
calculateOptimalPositionSize(metrics, limits, leverage, signal, currentPrice) ==
    TheOne({[size |-> size,
             leverage |-> cappedLeverage,
             stopLoss |-> IF signal.action = "BUY"
                          THEN F64Sub(F64(currentPrice), distance)
                          ELSE F64Add(F64(currentPrice), distance),
             margin |-> F64Div(F64Mul(size, F64(currentPrice)),
                               F64(cappedLeverage))] :
            size \in {sizeFor(totalBalanceOf(metrics), limits, signal.confidence,
                              F64(currentPrice))},
            cappedLeverage \in {sizingLeverage(leverage, signal.confidence, limits)},
            distance \in {sizingStopDistance(signal.stopLoss, F64(currentPrice))}})

\* POST /api/risk/calculate-size: calculatePositionSizeHandler has the
\* proposal, or has caught the RiskError thrown when there is no snapshot
CalculatePositionSize ==
    \E action \in SizingActions : \E confidence \in SizingConfidences :
    \E stopLoss \in SizingStopLosses : \E currentPrice \in SizingPrices :
    \E signal \in {[action |-> action, confidence |-> confidence,
                     stopLoss |-> stopLoss]} :
        /\ RiskIdle
        /\ lastProposal' =
               IF currentRiskMetrics = <<>>
               THEN <<[signal |-> signal, currentPrice |-> currentPrice,
                       proposal |-> <<>>]>>
               ELSE <<[signal |-> signal, currentPrice |-> currentPrice,
                       proposal |-> <<calculateOptimalPositionSize(
                                        currentRiskMetrics, riskLimits,
                                        defaultLeverage, signal, currentPrice)>>]>>
        /\ UNCHANGED <<currentRiskMetrics, riskLimits, lastAssessment,
                       defaultLeverage>>
        /\ UNCHANGED <<execVars, busVars, schedVars, signalVars>>

\* ... and sends it, or the failure
SendProposal ==
    /\ lastProposal # <<>>
    /\ lastProposal' = <<>>
    /\ UNCHANGED <<currentRiskMetrics, riskLimits, lastAssessment, defaultLeverage>>
    /\ UNCHANGED <<execVars, busVars, schedVars, signalVars>>

NextSizing ==
    \/ UpdateRiskMetrics
    \/ UpdateRiskLimits
    \/ CalculatePositionSize
    \/ SendProposal

\* The services constructed in simulated mode, under a configured
\* DEFAULT_LEVERAGE
InitSizing ==
    /\ ExecInit /\ BusInit /\ SchedInit /\ SignalInit /\ RiskInit
    /\ simulationMode
    /\ defaultLeverage \in ConfiguredLeverages

SpecSizing == InitSizing /\ [][NextSizing]_vars

(***************************************************************************)
(* Properties of validatePosition (SpecRisk)                               *)
(***************************************************************************)
\* The request and the assessment of the call that has just been made
Assessed == lastAssessment # <<>>
Request == lastAssessment[1].data
Assessment == lastAssessment[1].assessment

\* The snapshot's isTradeAllowed is false
TradingHalted == currentRiskMetrics # <<>> /\ ~currentRiskMetrics[1].isTradeAllowed

\* The snapshot's isTradeAllowed is true
TradingAllowed == currentRiskMetrics # <<>> /\ currentRiskMetrics[1].isTradeAllowed

\* C16: an assessment made while the snapshot's trade-allowed flag is false
\* is a rejection with risk level CRITICAL, whatever size, leverage and
\* price were requested.
C16_RejectedWhenTradingHalted ==
    (Assessed /\ TradingHalted) =>
        /\ ~Assessment.isAllowed
        /\ Assessment.riskLevel = "CRITICAL"

\* A request inside both limits is rejected because the flag is false
C16_Witness ==
    /\ Assessed /\ TradingHalted
    /\ Request.leverage <= riskLimits.maxLeverage
    /\ Request.size = 1
    /\ currentRiskMetrics[1].totalBalance > 0
    /\ ~Assessment.isAllowed
    /\ Assessment.riskLevel = "CRITICAL"

\* C17: every assessment, allowed or rejected, carries the stop-loss
\* price - d for a LONG request and price + d for a SHORT one, where
\* d = 0.02 * totalBalance / size.
C17_StopLossAlwaysSuggested ==
    Assessed =>
        Assessment.stopLoss
            = IF Request.side = "LONG"
              THEN F64Sub(F64(Request.price),
                          F64Div(F64Mul(F64Div(F64(2), F64(100)),
                                        totalBalanceOf(currentRiskMetrics)),
                                 F64(Request.size)))
              ELSE F64Add(F64(Request.price),
                          F64Div(F64Mul(F64Div(F64(2), F64(100)),
                                        totalBalanceOf(currentRiskMetrics)),
                                 F64(Request.size)))

\* C18: while trading is allowed, a request whose leverage exceeds
\* maxLeverage is rejected with maxLeverage recommended, and a request whose
\* leverage does not exceed it has its own leverage recommended.
C18_LeverageCapped ==
    (Assessed /\ TradingAllowed) =>
        IF Request.leverage > riskLimits.maxLeverage
        THEN /\ ~Assessment.isAllowed
             /\ Assessment.recommendedLeverage = riskLimits.maxLeverage
        ELSE Assessment.recommendedLeverage = Request.leverage

\* Leverage 15 against a limit of 10: rejected, 10 recommended
C18_Witness ==
    /\ Assessed /\ TradingAllowed
    /\ Request.leverage = 15
    /\ riskLimits.maxLeverage = 10
    /\ ~Assessment.isAllowed
    /\ Assessment.recommendedLeverage = 10

\* C19: while trading is allowed, a request whose size * price is a larger
\* percentage of the total balance than maxPositionSize is rejected, and the
\* recommended size is the largest that fits: recommendedSize * price equals
\* totalBalance * maxPositionSize / 100, and the recommended size passes the
\* position-size test itself.
C19_RecommendedSizeFitsLimit ==
    (/\ Assessed /\ TradingAllowed
     /\ exceedsPositionLimit(F64(Request.size), F64(Request.price),
                             totalBalanceOf(currentRiskMetrics), riskLimits)) =>
        /\ ~Assessment.isAllowed
        /\ F64Mul(Assessment.recommendedSize, F64(Request.price))
               = F64Div(F64Mul(totalBalanceOf(currentRiskMetrics),
                               F64(riskLimits.maxPositionSize)),
                        F64(100))
        /\ ~exceedsPositionLimit(Assessment.recommendedSize, F64(Request.price),
                                 totalBalanceOf(currentRiskMetrics), riskLimits)

Sized == lastProposal # <<>> /\ lastProposal[1].proposal # <<>>
SizedSignal == lastProposal[1].signal
SizedPrice == lastProposal[1].currentPrice
Proposal == lastProposal[1].proposal[1]

\* totalBalance * maxPositionSize / 100 of the snapshot and the limits
PositionValueLimit ==
    F64Div(F64Mul(totalBalanceOf(currentRiskMetrics),
                  F64(riskLimits.maxPositionSize)),
           F64(100))

\* 1 + 2^-50: a few roundings of a double
RoundingAllowance == F64Add(F64(1), F64Div(F64(1), F64Mul(F64(2^25), F64(2^25))))

\* C21 as stated: the proposal of every sizing call satisfies
\* size * currentPrice <= totalBalance * maxPositionSize / 100.
C21_SizeTimesPriceWithinLimit ==
    Sized => ~F64Gt(F64Mul(Proposal.size, F64(SizedPrice)), PositionValueLimit)

\* C21, amended: the size of every proposal is at most
\* maxSize = (totalBalance * (maxPositionSize / 100)) / currentPrice, so
\* size * currentPrice exceeds totalBalance * maxPositionSize / 100 by no
\* more than the rounding of the doubles (a relative 2^-50).
C21_SizeWithinLimitUpToRounding ==
    Sized =>
        /\ ~F64Gt(Proposal.size,
                  maxSizeOf(totalBalanceOf(currentRiskMetrics), riskLimits,
                            F64(SizedPrice)))
        /\ ~F64Gt(F64Mul(Proposal.size, F64(SizedPrice)),
                  F64Mul(PositionValueLimit, RoundingAllowance))

\* Balance 10000, limit 1 percent, confidence 100, price 11: the size is
\* capped at 100 / 11 and size * price is the double after 100
C21_Witness ==
    /\ Sized
    /\ SizedSignal.confidence = 100
    /\ currentRiskMetrics[1].totalBalance = 10000
    /\ riskLimits.maxPositionSize = 1
    /\ Proposal.size = F64Div(F64(100), F64(SizedPrice))
    /\ F64Gt(F64Mul(Proposal.size, F64(SizedPrice)), F64(100))

\* ceil(leverage * (1 + (confidence - 50) / 100)) in exact arithmetic:
\* the least whole number that is at least leverage * (confidence + 50) / 100
ExactScaledLeverage(leverage, confidence) ==
    (leverage * (confidence + 50) + 99) \div 100

\* C22: the leverage of every proposal equals
\* min(ceil(defaultLeverage * (1 + (confidence - 50) / 100)), maxLeverage)
\* and lies between 1 and maxLeverage.
C22_LeverageIsScaledAndCapped ==
    Sized =>
        /\ Proposal.leverage
               = Min(ExactScaledLeverage(defaultLeverage, SizedSignal.confidence),
                     riskLimits.maxLeverage)
        /\ Proposal.leverage >= 1
        /\ Proposal.leverage <= riskLimits.maxLeverage

\* The place of a level in LOW < MEDIUM < HIGH < CRITICAL
LevelRank(level) == CHOOSE i \in 1..Len(RiskLevelOrder) : RiskLevelOrder[i] = level

\* limit * tenths / 10 as the doubles give it
LimitShare(limit, tenths) == F64Mul(F64(limit), F64Div(F64(tenths), F64(10)))

\* The level the thresholds give a daily loss percentage and a margin usage
SpecifiedLevel(lossPercent, usage, limit) ==
    IF F64Gt(lossPercent, LimitShare(limit, 8)) \/ F64Gt(usage, F64(80))
    THEN "CRITICAL"
    ELSE IF F64Gt(lossPercent, LimitShare(limit, 6)) \/ F64Gt(usage, F64(60))
    THEN "HIGH"
    ELSE IF F64Gt(lossPercent, LimitShare(limit, 3)) \/ F64Gt(usage, F64(40))
    THEN "MEDIUM"
    ELSE "LOW"

\* a >= b of two numbers (false when either is NaN)
NotLess(a, b) == a.k # "nan" /\ b.k # "nan" /\ (a = b \/ F64Gt(a, b))

\* C23: every snapshot updateRiskMetrics stores has the level CRITICAL if
\* dailyLossPercent > 0.8 * limit or marginUsage > 80, else HIGH if
\* > 0.6 * limit or > 60, else MEDIUM if > 0.3 * limit or > 40, else LOW;
\* its trade-allowed flag is false exactly when the level is CRITICAL; and
\* its level is not below the level of the numbers of the snapshot it
\* replaces when neither dailyLossPercent nor marginUsage has decreased.
C23_RiskLevelFollowsThresholds ==
    [][currentRiskMetrics' # currentRiskMetrics =>
        \A new \in {currentRiskMetrics'[1]} :
        \A loss \in {dailyLossPercent(new.dailyPnL, new.totalBalance)} :
            /\ new.riskLevel
                   = SpecifiedLevel(loss, new.marginUsage, riskLimits.dailyLossLimit)
            /\ new.isTradeAllowed <=> new.riskLevel # "CRITICAL"
            /\ currentRiskMetrics # <<>> =>
                   \A old \in {currentRiskMetrics[1]} :
                   \A oldLoss \in {dailyLossPercent(old.dailyPnL, old.totalBalance)} :
                       (NotLess(loss, oldLoss)
                        /\ NotLess(new.marginUsage, old.marginUsage)) =>
                           LevelRank(new.riskLevel)
                               >= LevelRank(SpecifiedLevel(oldLoss, old.marginUsage,
                                                riskLimits.dailyLossLimit))]_vars

\* A snapshot with no daily loss and 65 percent of the balance in margin:
\* HIGH, and trading allowed
C23_Witness ==
    /\ currentRiskMetrics # <<>>
    /\ currentRiskMetrics[1].dailyPnL = 0
    /\ currentRiskMetrics[1].marginUsage = F64(65)
    /\ currentRiskMetrics[1].riskLevel = "HIGH"
    /\ currentRiskMetrics[1].isTradeAllowed

(***************************************************************************)
(* SpecPortfolio: simulated orders on two instruments, the monitoring      *)
(* cycles, and close-all in both modes.                                    *)
(***************************************************************************)
MaxFills == 2

PortfolioSymbols == {"BTCUSDT", "ETHUSDT"}
FillQuantities == {1}

\* What redis holds under market:<symbol> when a simulated fill reads it:
\* an order of 1 has a value below the 10000 of calculateSlippage at both
\* prices, and a value at which the logarithm term outweighs the base at 50
FillReads ==
    IF simulationMode
    THEN {[s \in PortfolioSymbols |-> IF s = "BTCUSDT" THEN 100 ELSE 50]}
    ELSE {[s \in PortfolioSymbols |-> NoData]}

\* MaxFills bounds the orders requested by the route; the closing orders
\* of the positions they open come on top, one for each instrument
FillRoom == Requested < MaxFills
PortfolioCloseRoom ==
    \/ ~simulationMode
    \/ Requested + Len(getSimulatedPositions(orderHistory))
           <= MaxFills + Cardinality(PortfolioSymbols)

\* POST /api/orders in SIMULATION mode
PlaceOrder ==
    /\ simulationMode
    /\ CreateOrderOf(PortfolioSymbols, FillQuantities, FillReads, FillRoom)

ClosePortfolio == CloseAllOf(PortfolioSymbols, FillReads, PortfolioCloseRoom)

NextPortfolio ==
    \/ PlaceOrder
    \/ MonitorOrders
    \/ ClosePortfolio

SpecPortfolio == Init /\ [][NextPortfolio]_vars

(***************************************************************************)
(* Simulated fills                                                         *)
(***************************************************************************)
\* The orders a step appends to the history
NewOrders == (Len(orderHistory) + 1)..Len(orderHistory')

\* C24: in simulated mode every order createOrder records is FILLED with
\* executedQty = quantity, and a monitoring cycle removes every order it
\* finds in the pending-orders map and changes the status of no order.
C24_SimulatedOrderFilledThenUntracked ==
    [][simulationMode =>
         /\ \A i \in NewOrders :
                /\ orderHistory'[i].status = "FILLED"
                /\ orderHistory'[i].executedQty = orderHistory'[i].quantity
         /\ lastOp'.op = "monitorOrders" =>
                /\ \A id \in DOMAIN pendingOrders : id \notin DOMAIN pendingOrders'
                /\ Len(orderHistory') = Len(orderHistory)
                /\ \A i \in 1..Len(orderHistory) :
                       orderHistory'[i].status = orderHistory[i].status]_vars

\* A monitoring cycle has just removed a simulated order, still FILLED
C24_Witness ==
    /\ simulationMode
    /\ lastOp.op = "monitorOrders"
    /\ \E id \in DOMAIN lastOp.outcomes :
           /\ lastOp.outcomes[id] = "removed"
           /\ id \notin DOMAIN pendingOrders
           /\ orderHistory[id].status = "FILLED"
           /\ orderHistory[id].executedQty = orderHistory[id].quantity

\* notional = quantity * executedPrice and fee = 0.0004 * notional of a
\* recorded order, in fixed point
Notional(order) == order.executedQty * order.averagePrice
FeeOf(order) == Notional(order) \div (FeeDenominator \div FeeNumerator)

\* What the specified ledger adds to the balance for a recorded order
LedgerEntry(order) ==
    IF order.side = "BUY" THEN 0 - (Notional(order) + FeeOf(order))
    ELSE Notional(order) - FeeOf(order)

RECURSIVE LedgerSum(_, _)
LedgerSum(orders, ids) ==
    IF ids = {} THEN 0
    ELSE LET i == CHOOSE x \in ids : TRUE
         IN  LedgerEntry(orders[i]) + LedgerSum(orders, ids \ {i})

\* C25: a step that records simulated fills (and loses none) changes the
\* simulated balance by -(notional + fee) for each BUY and by
\* +(notional - fee) for each SELL it records.
C25_BalanceFollowsLedger ==
    [][(simulationMode /\ lostFills' = lostFills) =>
           simulatedBalance' = simulatedBalance + LedgerSum(orderHistory', NewOrders)]_vars

\* C26: every simulated execution has slippage >= 0, a BUY executed at or
\* above the reference price and a SELL at or below it.
C26_SlippageAgainstTaker ==
    \A i \in 1..Len(simExecutions) :
        LET e == simExecutions[i]
        IN  /\ e.slippage >= 0
            /\ e.side = "BUY" => e.executedPrice >= e.price * Scale
            /\ e.side = "SELL" => e.executedPrice <= e.price * Scale

\* A BUY executed above its reference, a SELL below its reference, and an
\* execution whose slippage the floor at 0 decided
C26_Witness ==
    /\ \E i \in 1..Len(simExecutions) :
           /\ simExecutions[i].side = "BUY"
           /\ simExecutions[i].executedPrice > simExecutions[i].price * Scale
    /\ \E i \in 1..Len(simExecutions) :
           /\ simExecutions[i].side = "SELL"
           /\ simExecutions[i].executedPrice < simExecutions[i].price * Scale
    /\ \E i \in 1..Len(simExecutions) : simExecutions[i].slippage = 0

\* C27: a simulated execution whose notional is below 10000 has slippage
\* equal to the 0.05% base; a BUY of 1 at reference 100 executes at 100.05
\* with fee 0.04.
C27_SmallOrderSlippageIsBase ==
    \A i \in 1..Len(simExecutions) :
        LET e == simExecutions[i]
        IN  e.quantity * e.price < VolumeImpactRef =>
                /\ e.slippage = BaseSlippageMicroPct
                /\ (e.side = "BUY" /\ e.quantity = 1 /\ e.price = 100) =>
                       /\ e.executedPrice = 100 * Scale + Scale \div 20
                       /\ e.fee = (4 * Scale) \div 100

(***************************************************************************)
(* Close-all                                                               *)
(***************************************************************************)
\* Close-all made one closePosition call for each position of the list
EveryPositionAttempted ==
    /\ Len(lastOp.closures) = Len(lastOp.listed)
    /\ \A i \in 1..Len(lastOp.listed) :
           lastOp.closures[i].symbol = lastOp.listed[i]

EveryClosureSucceeded ==
    \A i \in 1..Len(lastOp.closures) : lastOp.closures[i].ret

\* C28 as stated: close-all makes one closure attempt for every open
\* position and returns true if and only if every closure returned true.
C28_CloseAllIsConjunctionOfClosures ==
    lastOp.op = "closeAllPositions" =>
        /\ EveryPositionAttempted
        /\ lastOp.ret <=> EveryClosureSucceeded

\* C28 amended: when getPositions returned the positions, close-all makes
\* one closure attempt for every one of them, whatever the earlier attempts
\* returned, and returns true if and only if every closure returned true;
\* when getPositions threw, it attempts no closure and returns false.
C28_CloseAllOfListedPositions ==
    lastOp.op = "closeAllPositions" =>
        IF lastOp.fetched
        THEN /\ EveryPositionAttempted
             /\ lastOp.ret <=> EveryClosureSucceeded
        ELSE /\ lastOp.closures = <<>>
             /\ ~lastOp.ret

\* Of two simulated positions, the first closure failed, the second was
\* still attempted and returned true, and close-all returned false
C28_Witness ==
    /\ simulationMode
    /\ lastOp.op = "closeAllPositions"
    /\ lastOp.fetched
    /\ Len(lastOp.listed) = 2
    /\ Len(lastOp.closures) = 2
    /\ ~lastOp.closures[1].ret
    /\ lastOp.closures[2].ret
    /\ ~lastOp.ret

(***************************************************************************)
(* Aggregation: ties and weights (SpecSignal)                              *)
(***************************************************************************)
\* The action groups of the analysis in iteration order, and their scores
AnalysedKeys == ActionKeys(analysis.signals, <<>>)
AnalysedScore(i) == actionScore(strategyConfigs, analysis.signals, AnalysedKeys[i])
TopScored == {i \in 1..Len(AnalysedKeys) :
                 \A j \in 1..Len(AnalysedKeys) : AnalysedScore(j) <= AnalysedScore(i)}

\* C29 as stated: the best action of an analysis is the first, in the
\* iteration order of the action groups, of the actions with the highest
\* score.
C29_FirstSeenWinsTies ==
    (Analysed /\ analysis.signals # <<>>) =>
        \E i \in TopScored :
            /\ bestAction(strategyConfigs, analysis.signals) = AnalysedKeys[i]
            /\ \A j \in TopScored : i <= j

\* C29 amended: the best action of an analysis is the last, in the
\* iteration order of the action groups, of the actions with the highest
\* score; the resolved signal carries it.
C29_LastSeenWinsTies ==
    (Analysed /\ analysis.signals # <<>>) =>
        \E i \in TopScored :
            /\ bestAction(strategyConfigs, analysis.signals) = AnalysedKeys[i]
            /\ \A j \in TopScored : j <= i
            /\ analysis.ret.aggregatedSignal # <<>> =>
                   analysis.ret.aggregatedSignal[1].action = AnalysedKeys[i]

\* Two actions tie for the highest score and the analysis resolved to the
\* one seen second
C29_Witness ==
    /\ Analysed
    /\ Len(AnalysedKeys) = 2
    /\ TopScored = {1, 2}
    /\ analysis.ret.aggregatedSignal # <<>>
    /\ analysis.ret.aggregatedSignal[1].action = AnalysedKeys[2]

\* The weight of a source as specified: the configured one whenever the
\* source has a configuration
ConfiguredWeight(strategy) ==
    IF strategy \in DOMAIN strategyConfigs THEN strategyConfigs[strategy].weight
    ELSE FallbackWeight

\* The sum of confidence * configured weight over the analysed signals of
\* the i-th action group, in hundredths
RECURSIVE ConfiguredSum(_, _)
ConfiguredSum(signals, action) ==
    IF signals = <<>> THEN 0
    ELSE (IF Head(signals).action = action
          THEN Head(signals).confidence * ConfiguredWeight(Head(signals).strategy)
          ELSE 0)
         + ConfiguredSum(Tail(signals), action)

ConfiguredScore(i) == ConfiguredSum(analysis.signals, AnalysedKeys[i])

\* C30: the score of every action group of an analysis is the sum of
\* confidence * configured weight of its signals (a source configured
\* with weight 0 contributes 0), and the confidence of the decision is the
\* highest such score over the maximum possible score, as a percentage
\* capped at 100.
C30_ScoreUsesConfiguredWeight ==
    (Analysed /\ analysis.signals # <<>>) =>
        /\ \A i \in 1..Len(AnalysedKeys) : AnalysedScore(i) = ConfiguredScore(i)
        /\ \E i \in 1..Len(AnalysedKeys) :
               /\ \A j \in 1..Len(AnalysedKeys) : ConfiguredScore(j) <= ConfiguredScore(i)
               /\ analysis.ret.confidence =
                      JSMin(Whole(100),
                            JSMul(JSDiv(Normal(ConfiguredScore(i), 100),
                                        Whole(maxPossibleScore(strategyConfigs,
                                                               StrategyOrder))),
                                  Whole(100)))

(***************************************************************************)
(* SpecAggregate: the analysis of an instrument whose strategies return    *)
(* signals of middling confidence, under every configuration.              *)
(***************************************************************************)
\* What analyze() returns here: nothing, or one signal
MiddlingKinds ==
    {[action |-> "BUY", confidence |-> 70], [action |-> "BUY", confidence |-> 65],
     [action |-> "SELL", confidence |-> 70]}

MiddlingOutcomes ==
    {[threw |-> FALSE, signals |-> <<>>]}
    \cup {[threw |-> FALSE, signals |-> <<k>>] : k \in MiddlingKinds}

GenerateMiddlingSignals == GenerateSignalsOf(MiddlingOutcomes)

NextAggregate ==
    \/ GenerateMiddlingSignals
    \/ EnableStrategy
    \/ DisableStrategy
    \/ UpdateStrategyConfig

SpecAggregate == InitSim /\ [][NextAggregate]_vars

\* The highest score of the action groups of the analysis, in hundredths
HighestScore ==
    AnalysedScore(CHOOSE i \in TopScored : TRUE)

\* The weights, in hundredths, of the enabled configurations
RECURSIVE EnabledWeight(_)
EnabledWeight(ids) ==
    IF ids = {} THEN 0
    ELSE LET id == CHOOSE x \in ids : TRUE
         IN  (IF strategyConfigs[id].enabled THEN strategyConfigs[id].weight ELSE 0)
             + EnabledWeight(ids \ {id})

\* C31: the confidence of an analysis of a non-empty signal set is
\* min(100, score(bestAction) / maxPossibleScore * 100), maxPossibleScore
\* being the sum of weight * 100 over the enabled configurations whether
\* or not they returned a signal; the default weights with BUY 70, BUY 65
\* and SELL 70 give confidence 47.5 and no resolved signal.
C31_ConfidenceIsBestOverMaxPossible ==
    (Analysed /\ analysis.signals # <<>>) =>
        /\ analysis.ret.confidence =
               JSMin(Whole(100),
                     JSMul(JSDiv(Normal(HighestScore, 100),
                                 Whole(EnabledWeight(StrategyIds))),
                           Whole(100)))
        /\ (/\ strategyConfigs = DefaultConfigs
            /\ analysis.signals =
                   <<[action |-> "BUY", confidence |-> 70, strategy |-> "momentum"],
                     [action |-> "BUY", confidence |-> 65, strategy |-> "mean-reversion"],
                     [action |-> "SELL", confidence |-> 70,
                      strategy |-> "funding-arbitrage"]>>) =>
               /\ analysis.ret.confidence = Finite(95, 2)
               /\ analysis.ret.aggregatedSignal = <<>>

\* The example of C31 has been analysed
C31_Witness ==
    /\ Analysed
    /\ strategyConfigs = DefaultConfigs
    /\ Len(analysis.signals) = 3
    /\ analysis.signals[1].confidence = 70 /\ analysis.signals[1].action = "BUY"
    /\ analysis.signals[2].confidence = 65 /\ analysis.signals[2].action = "BUY"
    /\ analysis.signals[3].confidence = 70 /\ analysis.signals[3].action = "SELL"
    /\ analysis.ret.confidence = Finite(95, 2)

(***************************************************************************)
(* The simulated open-position view (SpecPortfolio)                        *)
(***************************************************************************)
\* The signed size of an instrument: the FILLED BUY quantities of the
\* orders up to the n-th less the FILLED SELL quantities
RECURSIVE SignedSize(_, _, _)
SignedSize(history, symbol, n) ==
    IF n = 0 THEN 0
    ELSE SignedSize(history, symbol, n - 1)
         + (IF history[n].symbol # symbol \/ history[n].status # "FILLED" THEN 0
            ELSE IF history[n].side = "BUY" THEN history[n].executedQty
            ELSE 0 - history[n].executedQty)

\* The open-position view of the simulated account
OpenView == getSimulatedPositions(orderHistory)
InView(symbol) == \E i \in 1..Len(OpenView) : OpenView[i].symbol = symbol

\* C32: in simulated mode an instrument whose filled BUY and SELL
\* quantities are equal has no open position, and one whose BUY quantities
\* exceed its SELL quantities has a position of that signed size, whatever
\* the order of the fills.
C32_ViewIsSignedReplay ==
    simulationMode =>
        \A symbol \in PortfolioSymbols :
            LET signed == SignedSize(orderHistory, symbol, Len(orderHistory))
            IN  /\ signed = 0 => ~InView(symbol)
                /\ signed > 0 =>
                       \E i \in 1..Len(OpenView) :
                           /\ OpenView[i].symbol = symbol
                           /\ OpenView[i].size = signed

\* C33: in simulated mode, after a closePosition call of close-all has
\* returned true the view holds no position for its symbol, and after
\* close-all has returned true the view holds no position at all.
C33_ClosedPositionLeavesView ==
    (simulationMode /\ lastOp.op = "closeAllPositions") =>
        /\ \A i \in 1..Len(lastOp.closures) :
               lastOp.closures[i].ret => ~InView(lastOp.closures[i].symbol)
        /\ lastOp.ret => OpenView = <<>>

(***************************************************************************)
(* SpecReplay: simulated orders of one or two units on one instrument, so  *)
(* that a fill can reduce a position without closing it.                   *)
(***************************************************************************)
ReplaySymbols == {"BTCUSDT"}
ReplayQuantities == {1, 2}

PlaceSizedOrder ==
    /\ simulationMode
    /\ CreateOrderOf(ReplaySymbols, ReplayQuantities, FillReads, FillRoom)

NextReplay ==
    \/ PlaceSizedOrder
    \/ MonitorOrders

SpecReplay == InitSim /\ [][NextReplay]_vars

\* One iteration of the replay with the entry price as specified: the
\* average of the old entry over the old size and the fill over its quantity
SpecifiedReplayOrder(positions, order) ==
    LET i       == PosIndex(positions, order.symbol)
        oldSize == positions[i].size
        newSize == IF order.side = "BUY"
                   THEN oldSize + order.executedQty
                   ELSE oldSize - order.executedQty
        entry   == IF newSize > 0
                   THEN (positions[i].entryPrice * oldSize
                           + order.averagePrice * order.executedQty) \div newSize
                   ELSE positions[i].entryPrice
    IN  IF order.status # "FILLED" THEN positions
        ELSE IF i # 0
        THEN [positions EXCEPT ![i].size = newSize, ![i].entryPrice = entry]
        ELSE Append(positions,
                    [symbol |-> order.symbol,
                     side |-> IF order.side = "BUY" THEN "LONG" ELSE "SHORT",
                     size |-> order.executedQty,
                     entryPrice |-> order.averagePrice])

RECURSIVE SpecifiedReplayAll(_, _)
SpecifiedReplayAll(positions, orders) ==
    IF orders = <<>> THEN positions
    ELSE SpecifiedReplayAll(SpecifiedReplayOrder(positions, Head(orders)),
                            Tail(orders))

\* C34: in the replay of the simulated orders every fill that leaves the
\* size positive sets the entry price to
\* (oldEntry * oldSize + fillPrice * fillQty) / newSize: the entry prices of
\* the open-position view are those of the replay so specified.
C34_EntryIsRunningAverage ==
    simulationMode =>
        OpenView = SelectSeq(SpecifiedReplayAll(<<>>, orderHistory),
                             LAMBDA pos : pos.size > 0)

(***************************************************************************)
(* SpecWindow: the observation window of the Signal component under        *)
(* MARKET_DATA_UPDATE messages and analysis cycles.                        *)
(***************************************************************************)
MaxArrivals == 101

\* handleCommand: MARKET_DATA_UPDATE; the observation is numbered by its
\* arrival
MarketDataUpdate ==
    \E symbol \in Symbols :
        /\ arrivals[symbol] < MaxArrivals
        /\ arrivals' = [arrivals EXCEPT ![symbol] = @ + 1]
        /\ marketDataCache' =
               [marketDataCache EXCEPT
                   ![symbol] = handleMarketDataUpdate(@, arrivals[symbol] + 1)]
        /\ analysis' = Idle
        /\ UNCHANGED <<strategyConfigs, currentSignals>>
        /\ UNCHANGED <<execVars, busVars, schedVars, riskVars>>

\* An analysis cycle whose strategies find nothing
QuietOutcomes == {[threw |-> FALSE, signals |-> <<>>]}

GenerateQuietSignals == GenerateSignalsOf(QuietOutcomes)

NextWindow ==
    \/ MarketDataUpdate
    \/ GenerateQuietSignals

SpecWindow == InitSim /\ [][NextWindow]_vars

\* The most recent min(n, WindowSize) of the observations 1..n
MostRecent(n) ==
    [i \in 1..Min(n, WindowSize) |-> n - Min(n, WindowSize) + i]

\* C35: the window of an instrument never holds more than 100 points and
\* holds exactly the most recent min(n, 100) of the n observations
\* received for it, in arrival order.
C35_WindowHoldsMostRecent ==
    \A symbol \in Symbols :
        /\ Len(marketDataCache[symbol]) <= WindowSize
        /\ marketDataCache[symbol] = MostRecent(arrivals[symbol])

(***************************************************************************)
(* Monitoring under fairness.  The interval of startOrderExecution fires   *)
(* every 5 s for as long as it is scheduled, and the clock advances.  Fair *)
(* monitoring: a stopped monitor is started again, and a monitor that is   *)
(* scheduled again and again runs a cycle in which no collaborator call    *)
(* throws.  The exchange accepts the cancellation of an order it still     *)
(* holds open.                                                             *)
(***************************************************************************)
StartMonitoring == ~executionInterval /\ StartTrading

CleanCycle == MonitorOrders /\ ~lastOp'.faulted

NextMonitor ==
    \/ CreateOrderHandler
    \/ CancelOrderHandler
    \/ MonitorOrders
    \/ StartTrading
    \/ StopTrading
    \/ ExchangeUpdate
    \/ Tick

SpecMonitor ==
    /\ Init /\ [][NextMonitor]_vars
    /\ WF_vars(StartMonitoring) /\ SF_vars(CleanCycle) /\ WF_vars(Tick)

\* The exchange has settled the order, which it holds open no longer, so
\* that it refuses the cancellation the monitor ends with
CancelRefused(id) ==
    /\ ~simulationMode
    /\ id \in DOMAIN exStatus
    /\ exStatus[id] # "NEW"
    /\ orderHistory[id].status \notin {"FILLED", "CANCELED", "REJECTED"}

C37_TimerFollowsLastCommand ==
    \A component \in Components :
        /\ lastCommand[component] = "START_TRADING" => Scheduled(component)
        /\ lastCommand[component] \in {"STOP_TRADING", "EMERGENCY_STOP"} =>
               ~Scheduled(component)

(***************************************************************************)
(* SpecGate: the Risk monitor renews its snapshot while Execution handles  *)
(* trading signals, in simulated or in LIVE mode.                          *)
(***************************************************************************)
\* A TRADING_SIGNAL handled while Risk is in the state it is in
GatedSignal == TradingSignalOf({currentRiskMetrics # <<>>})

NextGate ==
    \/ UpdateRiskMetrics
    \/ GatedSignal

SpecGate == Init /\ [][NextGate]_vars

\* C38: while the current risk snapshot has isTradeAllowed = false, a BUY
\* or SELL trading signal gets no usable (positive) size from the sizing
\* request and creates no order: the order history and the pending-orders
\* map stay as they were.
C38_NoOrderWhileTradingHalted ==
    [][(/\ TradingHalted
        /\ lastOp'.op = "TRADING_SIGNAL"
        /\ lastOp'.action \in {"BUY", "SELL"}) =>
           /\ lastOp'.sizing # "usable"
           /\ lastOp'.created = 0
           /\ orderHistory' = orderHistory
           /\ pendingOrders' = pendingOrders]_vars

\* C38 witness: with trading halted by a CRITICAL snapshot, a BUY or SELL
\* signal has been handled as far as the sizing request
C38_Witness ==
    /\ TradingHalted
    /\ currentRiskMetrics[1].riskLevel = "CRITICAL"
    /\ lastOp.op = "TRADING_SIGNAL"
    /\ lastOp.action \in {"BUY", "SELL"}
    /\ lastOp.sizing = "timeout"

(***************************************************************************)
(* The risk level of a day in profit (under SpecRisk)                      *)
(***************************************************************************)
\* C39: only a daily loss raises the risk level: a snapshot whose
\* marginUsage is at most 40 and whose daily realized PnL is not negative
\* has the level LOW, and trading is allowed.
C39_ProfitKeepsLevelLow ==
    currentRiskMetrics # <<>> =>
        \A snapshot \in {currentRiskMetrics[1]} :
            (snapshot.dailyPnL >= 0 /\ ~F64Gt(snapshot.marginUsage, F64(40))) =>
                /\ snapshot.riskLevel = "LOW"
                /\ snapshot.isTradeAllowed

(***************************************************************************)
(* Signals after an emergency stop (under Spec)                            *)
(***************************************************************************)
\* C40: after Execution's emergency stop has completed and until a
\* START_TRADING command is received, handling a TRADING_SIGNAL creates no
\* new order and adds nothing to the pending-orders map.
C40_NoOrderAfterEmergencyStop ==
    [][(emergencyStopped /\ lastOp'.op = "TRADING_SIGNAL") =>
          /\ orderHistory' = orderHistory
          /\ DOMAIN pendingOrders' \subseteq DOMAIN pendingOrders]_vars
====
